---------------------------- MODULE Spec2Model ----------------------------
(***************************************************************************)
(* A model of wsl-secret-service: the Secret Service daemon that keeps     *)
(* item metadata in metadata.json and secret payloads in an external       *)
(* vault.                                                                  *)
(*                                                                         *)
(* The module holds several specifications over one set of variables:      *)
(*   SupSpec / FairSupSpec  the supervisor: idle monitor, main wait loop   *)
(*   StoreSpec              the metadata store, its file and crashes       *)
(*   SearchSpec             the store's searches by attributes             *)
(*   SecretSpec             sessions and the secrets of items              *)
(*   CollectionSpec         collections, aliases and exported bus paths    *)
(*   FaultSpec              the service with failing saves and helper     *)
(*   ReplaceSpec            CreateItem with replace over attribute sets    *)
(*   AliasSpec              SetAlias and ReadAlias over every kind of path *)
(*   SessionSpec            OpenSession over every algorithm and input     *)
(*   BridgeSpec             the bridge to the vault helper                 *)
(*   ActivitySpec           the service's methods under a running clock    *)
(*   GetSecretsSpec         GetSecrets over every kind of path             *)
(*   NamingSpec             CreateCollection over labels and their slugs   *)
(*   IsolationSpec          item deletions beside the items of others      *)
(*   GetSecretSpec          GetSecret and the errors it answers with       *)
(*   PathSpec               the object paths and their decoders            *)
(*   ModifiedSpec           the store's writes under a running clock       *)
(*   CryptoSpec             padding and AES-CBC on strings of bytes        *)
(*   RaceSpec               GetSecret(s) beside a concurrent Close         *)
(*   LockSpec               handlers as their lock, bridge and map steps   *)
(*   InterleaveSpec         item handlers run store call by store call     *)
(***************************************************************************)
EXTENDS Integers, Sequences, FiniteSets, TLC

(***************************************************************************)
(* Bounds of the model.                                                    *)
(***************************************************************************)
\* the wall clock runs over 0..MaxTime (seconds)
MaxTime == 6
\* the --timeout flag of the daemon, in seconds, as in the idle-shutdown scenario
timeoutDuration == 2
\* collection names the store-level operations draw from: the first MaxNames
\* entries of NameUniverse
MaxNames == 2
\* item uuids the store-level operations draw from: 1..MaxUUID
MaxUUID == 1
\* failed saves and crashes injected in one run
MaxFaults == 1
\* collections the service-level operations let the store hold
MaxCollections == 2
\* items the service-level operations create: their uuids are 1..MaxItems
MaxItems == 1

VARIABLES
    \* ---- supervisor (service.go New / startTimeoutMonitor, main.go main)
    now,                    \* time.Now().Unix()
    lastActivityTimestamp,  \* Service.lastActivityTimestamp
    ctx,                    \* [parent, child]: Done() of main's ctx and of New's ctxWithCancel
    monPc,                  \* position of the monitor goroutine
    monLast,                \* the monitor's local lastActivity
    monWake,                \* the monitor's timer: the time time.After fires
    mainPc,                 \* position of main: "wait" in the select, "return", "exited"
    sigChan,                \* a SIGTERM/SIGINT is queued on sigChan
    \* ---- metadata store (store.go)
    alive,                  \* the process runs and holds a Store
    data,                   \* Store.data
    disk,                   \* [main, tmp]: metadata.json and metadata.json.tmp
    committed,              \* history: Store.data as of the last save that succeeded
    faults,                 \* failed saves and crashes so far
    lastOp,                 \* the last operation and what it returned
    \* ---- service (service.go, collection.go, item.go, session.go)
    sessions,               \* the session registry, and the ids it once held
    vault,                  \* the backend: target -> secret bytes
    collections,            \* Service.collections (its keys)
    exports,                \* the objects and properties bound to bus paths
    nextUUID,               \* the uuid the next uuid.New() returns
    emitted,                \* the signals the last method call emitted on the bus
    wrote,                  \* history: how the store write of the last call ended
    hist,                   \* history: the payloads CreateItem was given, per item
    threads                 \* the handlers that run step by step, and the two locks

supVars == <<now, lastActivityTimestamp, ctx, monPc, monLast, monWake, mainPc, sigChan>>

storeVars == <<alive, data, disk, committed, faults, lastOp>>

svcVars == <<sessions, vault, collections, exports, nextUUID, emitted, wrote, hist, threads>>

vars == <<supVars, storeVars, svcVars>>


(***************************************************************************)
(* Metadata store: store.go.                                               *)
(***************************************************************************)

\* names and labels are strings of characters, written as sequences
login == <<"l", "o", "g", "i", "n">>
LoginLabel == <<"L", "o", "g", "i", "n">>
NameUniverse == <<login, <<"w">>, <<"w", "2">>, <<"x">>>>
Names == {NameUniverse[i] : i \in 1..MaxNames}
Labels == {<<"W">>}
AliasNames == {"default", "primary"}
UUIDs == 1..MaxUUID
DefaultContentType == "text/plain; charset=utf8"
SessionIDs == {"s1", "s2"}

\* attribute maps drawn by the store's operations
AttrMaps == {<<>>, [k \in {"tag"} |-> "v"]}
\* attribute maps and queries drawn by the searches: a key may be absent, hold
\* the empty string, or hold a value
SearchAttrMaps ==
    {<<>>, [k \in {"tag"} |-> ""], [k \in {"tag"} |-> "v"], [k \in {"user"} |-> "a"],
     [k \in {"tag", "user"} |-> IF k = "tag" THEN "" ELSE "a"],
     [k \in {"tag", "user"} |-> IF k = "tag" THEN "v" ELSE "a"]}

\* m[k] of a Go map: the zero value when k is absent
MapGet(m, k, zero) == IF k \in DOMAIN m THEN m[k] ELSE zero
\* m[k] = v
MapPut(m, k, v) == [x \in DOMAIN m \cup {k} |-> IF x = k THEN v ELSE m[x]]
\* delete(m, k)
MapDelete(m, k) == [x \in DOMAIN m \ {k} |-> m[x]]

\* storeData as New builds it before load
EmptyData == [Version |-> 1, Collections |-> <<>>, Aliases |-> <<>>]

\* ItemMeta as a caller of the store builds it
ItemMetaOf(label, attrs, ct) ==
    [Label |-> label, Attributes |-> attrs, Created |-> 0, Modified |-> 0,
     ContentType |-> ct]

\* ---- json.MarshalIndent / json.Unmarshal of storeData: a JSON object is the
\* ---- set of its members, a Go map is rebuilt member by member
JsonObject(m) == {<<k, m[k]>> : k \in DOMAIN m}
GoMap(members) == [k \in {mb[1] : mb \in members} |->
                      (CHOOSE mb \in members : mb[1] = k)[2]]
\* storing the members of a JSON object into an existing map
MapMerge(into, m) == [k \in DOMAIN into \cup DOMAIN m |->
                         IF k \in DOMAIN m THEN m[k] ELSE into[k]]

MarshalItem(it) ==
    [label |-> it.Label, attributes |-> JsonObject(it.Attributes),
     created |-> it.Created, modified |-> it.Modified,
     content_type |-> it.ContentType]
UnmarshalItem(j) ==
    [Label |-> j.label, Attributes |-> GoMap(j.attributes),
     Created |-> j.created, Modified |-> j.modified,
     ContentType |-> j.content_type]
MarshalCollection(c) ==
    [label |-> c.Label, created |-> c.Created, modified |-> c.Modified,
     items |-> JsonObject([u \in DOMAIN c.Items |-> MarshalItem(c.Items[u])])]
UnmarshalCollection(j) ==
    [Label |-> j.label, Created |-> j.created, Modified |-> j.modified,
     Items |-> LET m == GoMap(j.items)
               IN [u \in DOMAIN m |-> UnmarshalItem(m[u])]]
Marshal(d) ==
    [version |-> d.Version,
     collections |-> JsonObject([n \in DOMAIN d.Collections |->
                                    MarshalCollection(d.Collections[n])]),
     aliases |-> JsonObject(d.Aliases)]
Unmarshal(doc, into) ==
    [Version |-> doc.version,
     Collections |-> LET m == GoMap(doc.collections)
                     IN MapMerge(into.Collections,
                                 [n \in DOMAIN m |-> UnmarshalCollection(m[n])]),
     Aliases |-> MapMerge(into.Aliases, GoMap(doc.aliases))]

\* ---- files: absent, or a document that is complete or cut short
NoFile == [exists |-> FALSE, complete |-> FALSE, doc |-> Marshal(EmptyData)]
FullFile(d) == [exists |-> TRUE, complete |-> TRUE, doc |-> Marshal(d)]
\* a write cut short leaves a prefix of the document, which holds no document
PartFile(d) == [exists |-> TRUE, complete |-> FALSE, doc |-> Marshal(EmptyData)]

\* what os.WriteFile and os.Rename can do in one save, and a crash between
\* the steps of a save
SaveOutcomes == {"ok", "open_fail", "write_fail", "rename_fail",
                 "crash_write", "crash_rename"}

\* Store.load: [data, err, notExist]; it reads metadata.json only
load(d, dsk) ==
    IF ~dsk.main.exists THEN [data |-> d, err |-> TRUE, notExist |-> TRUE]
    ELSE IF ~dsk.main.complete THEN [data |-> d, err |-> TRUE, notExist |-> FALSE]
    ELSE [data |-> Unmarshal(dsk.main.doc, d), err |-> FALSE, notExist |-> FALSE]

\* save writing metadata.json in place, without the temp file and the rename
save_inplace(d, dsk, o) ==
    CASE o = "ok" ->
           [disk |-> [dsk EXCEPT !.main = FullFile(d)],
            err |-> FALSE, crashed |-> FALSE]
      [] o = "open_fail" ->
           [disk |-> dsk, err |-> TRUE, crashed |-> FALSE]
      [] o \in {"write_fail", "rename_fail"} ->
           [disk |-> [dsk EXCEPT !.main = PartFile(d)],
            err |-> TRUE, crashed |-> FALSE]
      [] OTHER ->
           [disk |-> [dsk EXCEPT !.main = PartFile(d)],
            err |-> FALSE, crashed |-> TRUE]

\* Store.save under outcome o: [disk, err, crashed]
save(d, dsk, o) ==
    CASE o = "ok" ->
           [disk |-> [main |-> FullFile(d), tmp |-> NoFile],
            err |-> FALSE, crashed |-> FALSE]
      [] o = "open_fail" ->
           [disk |-> dsk, err |-> TRUE, crashed |-> FALSE]
      [] o = "write_fail" ->
           [disk |-> [dsk EXCEPT !.tmp = PartFile(d)],
            err |-> TRUE, crashed |-> FALSE]
      [] o = "rename_fail" ->
           [disk |-> [dsk EXCEPT !.tmp = FullFile(d)],
            err |-> TRUE, crashed |-> FALSE]
      [] o = "crash_write" ->
           [disk |-> [dsk EXCEPT !.tmp = PartFile(d)],
            err |-> FALSE, crashed |-> TRUE]
      [] OTHER ->
           [disk |-> [dsk EXCEPT !.tmp = FullFile(d)],
            err |-> FALSE, crashed |-> TRUE]

\* ---- the operations on storeData: [data, err], err before anything is changed
StoreCreateCollection(d, name, label, t) ==
    IF name \in DOMAIN d.Collections THEN [data |-> d, err |-> TRUE]
    ELSE [data |-> [d EXCEPT !.Collections =
                        MapPut(@, name, [Label |-> label, Created |-> t,
                                         Modified |-> t, Items |-> <<>>])],
          err |-> FALSE]

StoreUpdateCollectionLabel(d, name, label, t) ==
    IF name \notin DOMAIN d.Collections THEN [data |-> d, err |-> TRUE]
    ELSE [data |-> [d EXCEPT !.Collections[name].Label = label,
                             !.Collections[name].Modified = t],
          err |-> FALSE]

\* DeleteCollection that leaves the aliases alone
StoreDeleteCollection_keepAliases(d, name) ==
    IF name \notin DOMAIN d.Collections THEN [data |-> d, err |-> TRUE]
    ELSE [data |-> [d EXCEPT !.Collections = MapDelete(@, name)], err |-> FALSE]

StoreDeleteCollection(d, name) ==
    IF name \notin DOMAIN d.Collections THEN [data |-> d, err |-> TRUE]
    ELSE [data |-> [d EXCEPT
                      !.Collections = MapDelete(@, name),
                      !.Aliases = [a \in {x \in DOMAIN @ : @[x] # name} |-> @[a]]],
          err |-> FALSE]

StoreCreateItem(d, collection, uuid, meta, t) ==
    IF collection \notin DOMAIN d.Collections THEN [data |-> d, err |-> TRUE]
    ELSE LET m == [meta EXCEPT !.Created = IF @ = 0 THEN t ELSE @,
                               !.Modified = t]
         IN [data |-> [d EXCEPT !.Collections[collection].Items = MapPut(@, uuid, m),
                                !.Collections[collection].Modified = t],
             err |-> FALSE]

\* UpdateItem that stamps the item and leaves the collection's modified alone
StoreUpdateItem_itemOnly(d, collection, uuid, meta, t) ==
    IF collection \notin DOMAIN d.Collections THEN [data |-> d, err |-> TRUE]
    ELSE IF uuid \notin DOMAIN d.Collections[collection].Items
            THEN [data |-> d, err |-> TRUE]
    ELSE [data |-> [d EXCEPT !.Collections[collection].Items[uuid] =
                                 [meta EXCEPT !.Modified = t]],
          err |-> FALSE]

StoreUpdateItem(d, collection, uuid, meta, t) ==
    IF collection \notin DOMAIN d.Collections THEN [data |-> d, err |-> TRUE]
    ELSE IF uuid \notin DOMAIN d.Collections[collection].Items
            THEN [data |-> d, err |-> TRUE]
    ELSE [data |-> [d EXCEPT !.Collections[collection].Items[uuid] =
                                 [meta EXCEPT !.Modified = t],
                             !.Collections[collection].Modified = t],
          err |-> FALSE]

\* DeleteItem that empties the collection
StoreDeleteItem_clear(d, collection, uuid, t) ==
    IF collection \notin DOMAIN d.Collections THEN [data |-> d, err |-> TRUE]
    ELSE IF uuid \notin DOMAIN d.Collections[collection].Items
            THEN [data |-> d, err |-> TRUE]
    ELSE [data |-> [d EXCEPT !.Collections[collection].Items = <<>>,
                             !.Collections[collection].Modified = t],
          err |-> FALSE]

StoreDeleteItem(d, collection, uuid, t) ==
    IF collection \notin DOMAIN d.Collections THEN [data |-> d, err |-> TRUE]
    ELSE IF uuid \notin DOMAIN d.Collections[collection].Items
            THEN [data |-> d, err |-> TRUE]
    ELSE [data |-> [d EXCEPT !.Collections[collection].Items = MapDelete(@, uuid),
                             !.Collections[collection].Modified = t],
          err |-> FALSE]

\* SetAlias that removes no alias
\* SetAlias that does not look the collection up
StoreSetAlias_unchecked(d, name, collection) ==
    IF collection = <<>>
       THEN [data |-> [d EXCEPT !.Aliases = MapDelete(@, name)], err |-> FALSE]
    ELSE [data |-> [d EXCEPT !.Aliases = MapPut(@, name, collection)], err |-> FALSE]

StoreSetAlias_keep(d, name, collection) ==
    IF collection = <<>> THEN [data |-> d, err |-> FALSE]
    ELSE IF collection \notin DOMAIN d.Collections THEN [data |-> d, err |-> TRUE]
    ELSE [data |-> [d EXCEPT !.Aliases = MapPut(@, name, collection)], err |-> FALSE]

\* collection = <<>> is the empty string: remove the alias
StoreSetAlias(d, name, collection) ==
    IF collection = <<>>
       THEN [data |-> [d EXCEPT !.Aliases = MapDelete(@, name)], err |-> FALSE]
    ELSE IF collection \notin DOMAIN d.Collections THEN [data |-> d, err |-> TRUE]
    ELSE [data |-> [d EXCEPT !.Aliases = MapPut(@, name, collection)], err |-> FALSE]

\* ---- the readers
GetCollection(d, name) == name \in DOMAIN d.Collections
ListCollections(d) == DOMAIN d.Collections
GetItemOk(d, collection, uuid) ==
    /\ collection \in DOMAIN d.Collections
    /\ uuid \in DOMAIN d.Collections[collection].Items
GetItem(d, collection, uuid) == d.Collections[collection].Items[uuid]
ListItems(d, collection) ==
    IF collection \in DOMAIN d.Collections
       THEN DOMAIN d.Collections[collection].Items ELSE {}
GetAlias(d, name) == MapGet(d.Aliases, name, <<>>)

matchesAll(itemAttrs, want) ==
    \A k \in DOMAIN want : MapGet(itemAttrs, k, "") = want[k]

SearchItemsInCollection(d, collection, attrs) ==
    IF collection \notin DOMAIN d.Collections THEN {}
    ELSE {<<collection, u>> : u \in
            {x \in DOMAIN d.Collections[collection].Items :
                matchesAll(d.Collections[collection].Items[x].Attributes, attrs)}}

SearchItems(d, attrs) ==
    UNION {SearchItemsInCollection(d, c, attrs) : c \in DOMAIN d.Collections}

\* store.New on a config directory holding dsk: [ok, crashed, data, disk]
New(dsk, t, o) ==
    LET l == load(EmptyData, dsk)
        seeded == [l.data EXCEPT
                     !.Collections = MapPut(@, login,
                         [Label |-> LoginLabel, Created |-> t, Modified |-> t,
                          Items |-> <<>>]),
                     !.Aliases = MapPut(@, "default", login)]
        s == save(seeded, dsk, o)
    IN IF l.err /\ ~l.notExist
          THEN [ok |-> FALSE, crashed |-> FALSE, data |-> EmptyData, disk |-> dsk]
       ELSE IF login \in DOMAIN l.data.Collections
          THEN [ok |-> TRUE, crashed |-> FALSE, data |-> l.data, disk |-> dsk]
       ELSE [ok |-> ~s.err /\ ~s.crashed, crashed |-> s.crashed,
             data |-> IF s.err \/ s.crashed THEN EmptyData ELSE seeded,
             disk |-> s.disk]

\* no call runs step by step
NoCall == [pc |-> "none"]
\* the goroutines the bus library runs method handlers in
Workers == {"w1", "w2"}
\* the store's RWMutex and the session registry's Mutex, both free
NoLocks == [store |-> [writer |-> "none", readers |-> {}], sessions |-> "none"]
\* a goroutine that runs no handler
Idle == [pc |-> 0, method |-> "none", local |-> 0]
NoThreads == [get |-> NoCall, close |-> NoCall,
              run |-> [w \in Workers |-> Idle], mu |-> NoLocks,
              done |-> [deleted |-> {}, written |-> <<>>]]

(***************************************************************************)
(* StoreSpec: the store's operations called one at a time (each holds the  *)
(* store's lock from entry to return), saves that fail, crashes, restarts. *)
(***************************************************************************)
NoOp == [op |-> "none", status |-> "none", arg |-> <<>>, result |-> {}]
Op(name, status, arg, result) ==
    [op |-> name, status |-> status, arg |-> arg, result |-> result]

\* the outcomes a save may still draw
Outcomes == IF faults < MaxFaults THEN SaveOutcomes ELSE {"ok"}

supIdle == 
    /\ now = 1
    /\ lastActivityTimestamp = 1
    /\ ctx = [parent |-> FALSE, child |-> FALSE]
    /\ monPc = "head"
    /\ monLast = 1
    /\ monWake = 1
    /\ mainPc = "wait"
    /\ sigChan = FALSE

\* no service object has been built
svcIdle ==
    /\ sessions = [id \in SessionIDs |-> "unopened"]
    /\ vault = <<>>
    /\ collections = {}
    /\ exports = [collection |-> {}, item |-> {}, alias |-> <<>>, session |-> {},
                  svcCollections |-> {}, colItems |-> <<>>]
    /\ nextUUID = 1
    /\ emitted = {}
    /\ wrote = "none"
    /\ hist = <<>>
    /\ threads = NoThreads

\* the state after store.New on an empty config directory
StoreInit ==
    /\ supIdle
    /\ alive = TRUE
    /\ data = New([main |-> NoFile, tmp |-> NoFile], 1, "ok").data
    /\ disk = New([main |-> NoFile, tmp |-> NoFile], 1, "ok").disk
    /\ committed = New([main |-> NoFile, tmp |-> NoFile], 1, "ok").data
    /\ faults = 0
    /\ lastOp = Op("New", "ok", <<>>, {})
    /\ svcIdle

\* a mutating operation: res is what it did to storeData, then save under o
Mutation(name, res, o) ==
    /\ alive
    /\ o \in Outcomes
    /\ \E r \in {res} : \E s \in {save(r.data, disk, o)} :
          /\ r.err => o = "ok"
          /\ IF r.err
                THEN /\ lastOp' = Op(name, "error", <<>>, {})
                     /\ UNCHANGED <<alive, data, disk, committed, faults>>
             ELSE /\ alive' = ~s.crashed
                  /\ data' = IF s.crashed THEN EmptyData ELSE r.data
                  /\ disk' = s.disk
                  /\ committed' = IF o = "ok" THEN r.data ELSE committed
                  /\ faults' = IF o = "ok" THEN faults ELSE faults + 1
                  /\ lastOp' = Op(name, IF s.crashed THEN "crashed"
                                        ELSE IF s.err THEN "savefail" ELSE "ok",
                                  <<>>, {})
    /\ UNCHANGED <<supVars, svcVars>>

StCreateCollection(name, label, o) ==
    Mutation("CreateCollection",
             StoreCreateCollection(data, name, label, now), o)

StUpdateCollectionLabel(name, label, o) ==
    Mutation("UpdateCollectionLabel",
             StoreUpdateCollectionLabel(data, name, label, now), o)

StDeleteCollection(name, o) ==
    Mutation("DeleteCollection", StoreDeleteCollection(data, name), o)

StCreateItem(collection, uuid, meta, o) ==
    Mutation("CreateItem",
             StoreCreateItem(data, collection, uuid, meta, now), o)

StUpdateItem(collection, uuid, meta, o) ==
    Mutation("UpdateItem",
             StoreUpdateItem(data, collection, uuid, meta, now), o)

StDeleteItem(collection, uuid, o) ==
    Mutation("DeleteItem",
             StoreDeleteItem(data, collection, uuid, now), o)

StSetAlias(name, collection, o) ==
    Mutation("SetAlias",
             StoreSetAlias(data, name, collection), o)

StSearchItems(attrs) ==
    /\ alive
    /\ lastOp' = Op("SearchItems", "ok", <<attrs>>, SearchItems(data, attrs))
    /\ UNCHANGED <<alive, data, disk, committed, faults>>
    /\ UNCHANGED <<supVars, svcVars>>

\* the process dies between two operations
Crash ==
    /\ alive
    /\ alive' = FALSE
    /\ data' = EmptyData
    /\ lastOp' = Op("Crash", "crashed", <<>>, {})
    /\ UNCHANGED <<disk, committed, faults>>
    /\ UNCHANGED <<supVars, svcVars>>

\* the daemon is started again on the same config directory
Restart(o) ==
    /\ ~alive
    /\ o \in Outcomes
    /\ \E r \in {New(disk, now, o)} :
       LET seeds == disk.main.exists /\ disk.main.complete
                    => login \notin DOMAIN load(EmptyData, disk).data.Collections
       IN /\ ~seeds => o = "ok"
          /\ alive' = r.ok
          /\ data' = r.data
          /\ disk' = r.disk
          /\ committed' = IF r.ok /\ seeds THEN r.data ELSE committed
          /\ faults' = IF o = "ok" THEN faults ELSE faults + 1
          /\ lastOp' = Op("New", IF r.ok THEN "ok"
                                 ELSE IF r.crashed THEN "crashed" ELSE "error",
                          <<>>, {})
    /\ UNCHANGED <<supVars, svcVars>>

StoreNext ==
    \/ \E n \in Names, l \in Labels, o \in SaveOutcomes : StCreateCollection(n, l, o)
    \/ \E n \in Names, l \in Labels, o \in SaveOutcomes : StUpdateCollectionLabel(n, l, o)
    \/ \E n \in Names, o \in SaveOutcomes : StDeleteCollection(n, o)
    \/ \E n \in Names, u \in UUIDs, a \in AttrMaps, o \in SaveOutcomes :
          StCreateItem(n, u, ItemMetaOf(<<"I">>, a, DefaultContentType), o)
    \/ \E n \in Names, u \in UUIDs, a \in AttrMaps, o \in SaveOutcomes :
          StUpdateItem(n, u, ItemMetaOf(<<"J">>, a, DefaultContentType), o)
    \/ \E n \in Names, u \in UUIDs, o \in SaveOutcomes : StDeleteItem(n, u, o)
    \/ \E a \in AliasNames, n \in Names \cup {<<>>}, o \in SaveOutcomes :
          StSetAlias(a, n, o)
    \/ Crash
    \/ \E o \in SaveOutcomes : Restart(o)

StoreSpec == StoreInit /\ [][StoreNext]_vars

(***************************************************************************)
(* SearchSpec: items created and deleted, and searched by attributes.      *)
(***************************************************************************)
SearchNext ==
    \/ \E n \in Names, l \in Labels : StCreateCollection(n, l, "ok")
    \/ \E n \in Names, u \in UUIDs, a \in SearchAttrMaps :
          StCreateItem(n, u, ItemMetaOf(<<"I">>, a, DefaultContentType), "ok")
    \/ \E n \in Names, u \in UUIDs : StDeleteItem(n, u, "ok")
    \/ \E q \in SearchAttrMaps : StSearchItems(q)

SearchSpec == StoreInit /\ [][SearchNext]_vars

(***************************************************************************)
(* Claims about the store.                                                 *)
(***************************************************************************)

\* the durable snapshot: what Store.load would read from metadata.json
DurableSnapshot == Unmarshal(disk.main.doc, EmptyData)

\* C3: whenever the store is up, the collection login exists and the alias
\* default maps to it.
SeedingInvariant ==
    alive => /\ login \in DOMAIN data.Collections
             /\ GetAlias(data, "default") = login

\* Q is a subset of A as a set of (key, value) pairs
IsSubmap(q, a) == \A k \in DOMAIN q : k \in DOMAIN a /\ a[k] = q[k]

\* C4: SearchItems(Q) returns exactly the items whose attribute map contains
\* every (key, value) pair of Q.
SearchSuperset ==
    lastOp.op = "SearchItems" =>
        lastOp.result =
            {<<c, u>> \in (DOMAIN data.Collections) \X UUIDs :
                /\ u \in DOMAIN data.Collections[c].Items
                /\ IsSubmap(lastOp.arg[1], data.Collections[c].Items[u].Attributes)}

\* C6: metadata.json is absent or holds the complete serialization of the
\* state the last successful save wrote; no metadata.json.tmp is left by an
\* operation whose save succeeded; a restart reads metadata.json alone,
\* whatever metadata.json.tmp holds.
AtomicMetadataFile ==
    /\ disk.main.exists =>
          disk.main.complete /\ disk.main.doc = Marshal(committed)
    /\ (lastOp.status = "ok" /\ lastOp.op \notin {"New", "SearchItems"}) =>
          ~disk.tmp.exists
    /\ (alive /\ lastOp.op = "New") => data = DurableSnapshot

\* a restart that succeeded beside the partial metadata.json.tmp a crashed
\* save left behind
AtomicMetadataFileWitness ==
    /\ alive
    /\ lastOp = Op("New", "ok", <<>>, {})
    /\ faults > 0
    /\ disk.main.exists
    /\ disk.tmp.exists /\ ~disk.tmp.complete
    /\ data # New([main |-> NoFile, tmp |-> NoFile], 1, "ok").data

\* C7: a store.New on the same directory yields exactly the state as of the
\* last successful mutation.
PersistenceRoundTrip == [][(~alive /\ alive') => data' = committed]_vars

\* C8: after an operation whose save failed, the store's state is the durable
\* snapshot.
NoPartialCommit ==
    (alive /\ lastOp.status = "savefail") => data = DurableSnapshot

\* every alias of d maps to a collection of d
AliasesResolve(d) == \A a \in DOMAIN d.Aliases : d.Aliases[a] \in DOMAIN d.Collections

\* C39: in every state of the store, in memory and as last saved, every alias
\* maps to a collection that exists; a SetAlias that is rejected leaves the
\* store as it was, and after a DeleteCollection no alias maps to the
\* collection that was deleted.
NoDanglingAlias ==
    /\ AliasesResolve(data)
    /\ [][/\ AliasesResolve(data')
          /\ AliasesResolve(committed')
          /\ (lastOp'.op = "SetAlias" /\ lastOp'.status = "error") => data' = data
          /\ lastOp'.op = "DeleteCollection" =>
                \A a \in DOMAIN data'.Aliases :
                    data'.Aliases[a] \notin DOMAIN data.Collections \ DOMAIN data'.Collections]_vars

\* a DeleteCollection of login has succeeded, the default alias went with
\* it, and another alias still maps to a collection that is left
NoDanglingAliasWitness ==
    /\ lastOp.op = "DeleteCollection"
    /\ lastOp.status = "ok"
    /\ login \notin DOMAIN data.Collections
    /\ "default" \notin DOMAIN data.Aliases
    /\ \E a \in DOMAIN data.Aliases : data.Aliases[a] \in DOMAIN data.Collections

(***************************************************************************)
(* Service: service.go, collection.go, item.go, session.go, types.go.      *)
(***************************************************************************)

\* ---- secret bytes: a payload under the AES-CBC layers applied to it, the
\* ---- outermost last; a layer is <<key, iv>>
Payloads == {"p", "q"}
IVs == {"iv1", "iv2"}
\* the ivs clients draw
ClientIVs == {"iv1"}
Plain(p) == [pt |-> p, layers |-> <<>>]

\* aesEncrypt under the iv that rand.Read drew
aesEncrypt(key, iv, plaintext) ==
    [pt |-> plaintext.pt, layers |-> Append(plaintext.layers, <<key, iv>>)]

\* aesDecrypt: [err, bytes]; bytes that are no ciphertext under (key, iv) fail
\* the length test or the unpadding
aesDecrypt(key, iv, ciphertext) ==
    IF /\ ciphertext.layers # <<>>
       /\ ciphertext.layers[Len(ciphertext.layers)] = <<key, iv>>
       THEN [err |-> FALSE,
             bytes |-> [ciphertext EXCEPT
                           !.layers = SubSeq(@, 1, Len(@) - 1)]]
    ELSE [err |-> TRUE, bytes |-> ciphertext]

\* ---- sessions: "unopened", "plain", "dh" or "closed" per session id; the
\* ---- registry holds the ids that are "plain" or "dh"
SessionAlgorithms == {"plain", "dh"}
\* a registry that Session.Close leaves alone
Registered_neverRemoved(id) == sessions[id] # "unopened"

Registered(id) == sessions[id] \in SessionAlgorithms
\* Session.aesKey: nil for a plain session, else the key derived for the session
aesKey(id) == IF sessions[id] = "dh" THEN id ELSE "nil"

\* encryptSecret that encrypts for plain sessions too
encryptSecret_always(key, plaintext, iv) ==
    [params |-> iv, value |-> aesEncrypt(key, iv, plaintext)]

\* Session.encryptSecret: [params, value]; params "" is the empty byte string
encryptSecret(key, plaintext, iv) ==
    IF key = "nil" THEN [params |-> "", value |-> plaintext]
    ELSE [params |-> iv, value |-> aesEncrypt(key, iv, plaintext)]

\* Session.decryptSecret: [err, bytes]
decryptSecret(key, params, ciphertext) ==
    IF key = "nil" THEN [err |-> FALSE, bytes |-> ciphertext]
    ELSE IF params \notin IVs THEN [err |-> TRUE, bytes |-> ciphertext]
    ELSE aesDecrypt(key, params, ciphertext)

\* the Secret a client builds to carry payload p over session id
ClientSecret(id, p, iv, ct) ==
    IF sessions[id] = "dh"
       THEN [Session |-> id, Parameters |-> iv,
             Value |-> aesEncrypt(id, iv, Plain(p)), ContentType |-> ct]
    ELSE [Session |-> id, Parameters |-> "", Value |-> Plain(p), ContentType |-> ct]

NoSecret == [Session |-> "", Parameters |-> "", Value |-> Plain(""), ContentType |-> ""]

\* ---- collectionSlug
UpperCase == <<"A", "B", "C", "D", "E", "F", "G", "H", "I", "J", "K", "L", "M",
               "N", "O", "P", "Q", "R", "S", "T", "U", "V", "W", "X", "Y", "Z">>
LowerCase == <<"a", "b", "c", "d", "e", "f", "g", "h", "i", "j", "k", "l", "m",
               "n", "o", "p", "q", "r", "s", "t", "u", "v", "w", "x", "y", "z">>
Digits == <<"0", "1", "2", "3", "4", "5", "6", "7", "8", "9">>
ToLower(ch) ==
    IF \E i \in DOMAIN UpperCase : UpperCase[i] = ch
       THEN LowerCase[CHOOSE i \in DOMAIN UpperCase : UpperCase[i] = ch]
    ELSE ch
IsSlugChar(ch) ==
    \/ \E i \in DOMAIN LowerCase : LowerCase[i] = ch
    \/ \E i \in DOMAIN Digits : Digits[i] = ch
\* collectionSlug that keeps the case of the label
collectionSlug_keepCase(label) ==
    LET b == SelectSeq(label,
                 LAMBDA ch : IsSlugChar(ch) \/ \E i \in DOMAIN UpperCase : UpperCase[i] = ch)
    IN IF b = <<>> THEN <<"c", "o", "l", "l", "e", "c", "t", "i", "o", "n">>
       ELSE b

collectionSlug(label) ==
    LET b == SelectSeq([i \in DOMAIN label |-> ToLower(label[i])], IsSlugChar)
    IN IF b = <<>> THEN <<"c", "o", "l", "l", "e", "c", "t", "i", "o", "n">>
       ELSE b

\* fmt.Sprintf("%d", i)
RECURSIVE Decimal(_)
Decimal(i) ==
    IF i < 10 THEN <<Digits[i + 1]>>
    ELSE Decimal(i \div 10) \o <<Digits[(i % 10) + 1]>>

\* ---- object paths: strings of characters, written as sequences
ServicePath ==
    <<"/", "o", "r", "g", "/", "f", "r", "e", "e", "d", "e", "s", "k", "t", "o", "p",
      "/", "s", "e", "c", "r", "e", "t", "s">>
CollectionPathPrefix ==
    ServicePath \o <<"/", "c", "o", "l", "l", "e", "c", "t", "i", "o", "n", "/">>
SessionPathPrefix ==
    ServicePath \o <<"/", "s", "e", "s", "s", "i", "o", "n", "/">>
\* StubPromptPath, and the path that removes an alias
RootPath == <<"/">>

\* strings.ReplaceAll(s, old, new) for one-character old and new
ReplaceAll(s, old, new) == [i \in DOMAIN s |-> IF s[i] = old THEN new ELSE s[i]]

\* uuid.New().String() of the n-th uuid drawn: groups joined by hyphens
UUIDString(n) == <<"u", "u", "i", "d", "-">> \o Decimal(n)
\* the uuid a string spells; 0 when it spells none that was drawn
UUIDOf(str) ==
    IF \E n \in 1..(MaxItems + 1) : UUIDString(n) = str
       THEN CHOOSE n \in 1..(MaxItems + 1) : UUIDString(n) = str
    ELSE 0

CollectionPath(name) == CollectionPathPrefix \o name
ItemPath(collection, uuid) ==
    CollectionPathPrefix \o collection \o <<"/">> \o ReplaceAll(uuid, "-", "_")
SessionPath(uuid) == SessionPathPrefix \o ReplaceAll(uuid, "-", "_")

\* the index of the first "/" of rest; 0 when it holds none
FirstSlash(rest) ==
    IF \E i \in DOMAIN rest : rest[i] = "/"
       THEN CHOOSE i \in DOMAIN rest :
               rest[i] = "/" /\ \A j \in 1..(i - 1) : rest[j] # "/"
    ELSE 0

\* CollectionNameFromPath: the text behind the first len(prefix) characters,
\* up to its first slash
CollectionNameFromPath(path) ==
    IF Len(path) <= Len(CollectionPathPrefix) THEN <<>>
    ELSE LET rest == SubSeq(path, Len(CollectionPathPrefix) + 1, Len(path))
         IN IF FirstSlash(rest) # 0 THEN SubSeq(rest, 1, FirstSlash(rest) - 1)
            ELSE rest

\* ItemUUIDFromPath that returns the uuid segment as the path spells it
ItemUUIDFromPath_raw(path) ==
    IF Len(path) <= Len(CollectionPathPrefix)
       THEN [collection |-> <<>>, uuid |-> <<>>]
    ELSE LET rest == SubSeq(path, Len(CollectionPathPrefix) + 1, Len(path))
             i == FirstSlash(rest)
         IN IF i # 0
               THEN [collection |-> SubSeq(rest, 1, i - 1),
                     uuid |-> SubSeq(rest, i + 1, Len(rest))]
            ELSE [collection |-> <<>>, uuid |-> <<>>]

\* ItemUUIDFromPath: [collection, uuid], both empty when rest holds no slash
ItemUUIDFromPath(path) ==
    IF Len(path) <= Len(CollectionPathPrefix)
       THEN [collection |-> <<>>, uuid |-> <<>>]
    ELSE LET rest == SubSeq(path, Len(CollectionPathPrefix) + 1, Len(path))
             i == FirstSlash(rest)
         IN IF i # 0
               THEN [collection |-> SubSeq(rest, 1, i - 1),
                     uuid |-> ReplaceAll(SubSeq(rest, i + 1, Len(rest)), "_", "-")]
            ELSE [collection |-> <<>>, uuid |-> <<>>]

\* the loop of CreateCollection that makes the name unused: name is tried, and
\* base followed by i is tried next
RECURSIVE UniqueNameLoop(_, _, _, _)
UniqueNameLoop(d, base, name, i) ==
    IF ~GetCollection(d, name) THEN name
    ELSE UniqueNameLoop(d, base, base \o Decimal(i), i + 1)

UniqueName(d, base) == UniqueNameLoop(d, base, base, 2)

SecretsLabel == <<"S", "e", "c", "r", "e", "t", "s">>

\* itemMetaFromProperties
itemMetaFromProperties(label, attrs) == ItemMetaOf(label, attrs, DefaultContentType)

\* ---- conn.Export
\* Service.exportCollectionAtAlias
exportCollectionAtAlias(ex, cols, alias, colName) ==
    IF colName \notin cols THEN ex
    ELSE [ex EXCEPT !.alias = MapPut(@, alias, colName)]

\* Service.exportAliasedCollections, over the store's alias map
RECURSIVE exportAliasedCollections(_, _, _)
exportAliasedCollections(ex, cols, aliases) ==
    IF DOMAIN aliases = {} THEN ex
    ELSE LET a == CHOOSE x \in DOMAIN aliases : TRUE
         IN exportAliasedCollections(
                exportCollectionAtAlias(ex, cols, a, aliases[a]),
                cols, MapDelete(aliases, a))

\* Service.updateCollectionsProp: the Collections property of the Service
\* object, as the names of the collections whose paths it lists
updateCollectionsProp(ex, d) == [ex EXCEPT !.svcCollections = ListCollections(d)]

\* Service.updateCollectionItemsProp: the Items property of the collection
\* object that svc.collections holds under the name, as the uuids of the
\* items whose paths it lists
updateCollectionItemsProp(ex, cols, d, collectionName) ==
    IF collectionName \notin cols THEN ex
    ELSE [ex EXCEPT !.colItems = MapPut(@, collectionName, ListItems(d, collectionName))]

\* the collections and exports service.New builds from the store: the
\* Collections property, every collection with its Items property, every
\* item, then the alias paths
ServiceNew(d) ==
    LET cols == ListCollections(d)
        ex == [collection |-> cols,
               item |-> UNION {{<<c, u>> : u \in ListItems(d, c)} : c \in cols},
               alias |-> <<>>, session |-> {},
               svcCollections |-> cols,
               colItems |-> [c \in cols |-> ListItems(d, c)]]
    IN [collections |-> cols,
        exports |-> exportAliasedCollections(ex, cols, d.Aliases)]

\* a Collection object answers calls while it is bound to a bus path
Callable(c) ==
    \/ c \in exports.collection
    \/ \E a \in DOMAIN exports.alias : exports.alias[a] = c

(***************************************************************************)
(* The daemon's D-Bus methods, called one at a time by clients.  A method  *)
(* that saves the store takes the outcome o of the save, and one that      *)
(* calls the vault takes the outcome h of the helper.                      *)
(***************************************************************************)
SvcLabels == {<<"W">>}
SvcNames == {login, <<"w">>, <<"w", "2">>}
SvcAliasNames == {"default"}
OctetStream == "application/octet-stream"

\* the method records activity at entry
Activity ==
    /\ lastActivityTimestamp' = now
    /\ UNCHANGED <<now, ctx, monPc, monLast, monWake, mainPc, sigChan>>

\* a store operation that changed storeData to d and saved it under outcome o
Write(d, o) ==
    /\ data' = d
    /\ disk' = save(d, disk, o).disk
    /\ committed' = IF o = "ok" THEN d ELSE committed
    /\ UNCHANGED alive

NoWrite == UNCHANGED <<alive, data, disk, committed>>

\* the save and the helper call of a method ended as outs tells: the ones that
\* failed are counted
Faults(outs) ==
    LET k == Cardinality({j \in DOMAIN outs : outs[j] # "ok"})
    IN /\ faults + k <= MaxFaults
       /\ faults' = faults + k

\* the outcomes the save of a method call draws: os.WriteFile succeeds or fails
SvcSaveOutcomes == {"ok", "write_fail"}

\* conn.Emit, and how the method's store write ended: "ok", "failed", or
\* "none" when the method called no store write
Emit(signals, w) ==
    /\ emitted' = signals
    /\ wrote' = w

WriteStatus(o) == IF o = "ok" THEN "ok" ELSE "failed"

\* ---- the vault behind Bridge.call: the helper answers ("ok"), cannot be run
\* ---- ("transport"), or answers ok=false with an error that names no missing
\* ---- credential ("refused")
HelperOutcomes == {"ok", "transport", "refused"}

\* Bridge.Delete: [vault, err]
BridgeDelete(v, target, h) ==
    IF h # "ok" THEN [vault |-> v, err |-> h]
    ELSE IF target \notin DOMAIN v THEN [vault |-> v, err |-> "NotFound"]
    ELSE [vault |-> MapDelete(v, target), err |-> "nil"]

\* Bridge.Get that answers a missing credential with no bytes and no error
BridgeGet_noNotFound(v, target, h) ==
    IF h # "ok" THEN [bytes |-> <<>>, err |-> h]
    ELSE [bytes |-> MapGet(v, target, <<>>), err |-> "nil"]

\* Bridge.Get: [bytes, err]
BridgeGet(v, target, h) ==
    IF h # "ok" THEN [bytes |-> <<>>, err |-> h]
    ELSE IF target \notin DOMAIN v THEN [bytes |-> <<>>, err |-> "NotFound"]
    ELSE [bytes |-> v[target], err |-> "nil"]

\* the largest secret Bridge.Set passes on to the helper, in bytes
maxSecretBytes == 2560

\* make([]byte, n): a secret of n bytes; the bridge looks at its length only
Zeros(n) == [len |-> n]

\* Bridge.Set that turns away a secret of maxSecretBytes bytes too
BridgeSet_inclusive(v, target, secret, h) ==
    IF secret.len >= maxSecretBytes THEN [vault |-> v, err |-> "TooLarge"]
    ELSE IF h # "ok" THEN [vault |-> v, err |-> h]
    ELSE [vault |-> MapPut(v, target, secret), err |-> "nil"]

\* Bridge.Set: [vault, err]; a secret that is too large never reaches the helper
BridgeSet(v, target, secret, h) ==
    IF secret.len > maxSecretBytes THEN [vault |-> v, err |-> "TooLarge"]
    ELSE IF h # "ok" THEN [vault |-> v, err |-> h]
    ELSE [vault |-> MapPut(v, target, secret), err |-> "nil"]

\* ---- the input variant of OpenSession: a byte array of len bytes, or another type
ByteArray(n) == [isBytes |-> TRUE, len |-> n]
EmptyString == [isBytes |-> FALSE, len |-> 0]
DHAlgorithm == "dh"
\* the length of a public key of the 1024-bit group, in bytes
dhGroupSize == 128

\* the state after store.New on an empty config directory and service.New
ServiceInit ==
    /\ supIdle
    /\ alive = TRUE
    /\ data = New([main |-> NoFile, tmp |-> NoFile], 1, "ok").data
    /\ disk = New([main |-> NoFile, tmp |-> NoFile], 1, "ok").disk
    /\ committed = New([main |-> NoFile, tmp |-> NoFile], 1, "ok").data
    /\ faults = 0
    /\ lastOp = Op("New", "ok", <<>>, {})
    /\ sessions = [id \in SessionIDs |-> "unopened"]
    /\ vault = <<>>
    /\ collections = ServiceNew(data).collections
    /\ exports = ServiceNew(data).exports
    /\ nextUUID = 1
    /\ emitted = {}
    /\ wrote = "none"
    /\ hist = <<>>
    /\ threads = NoThreads

\* Service.OpenSession; the session's uuid is fresh: an id no session had
ServiceOpenSession(algorithm, input) ==
    /\ alive
    /\ \E x \in SessionIDs : sessions[x] = "unopened"
    /\ Activity
    /\ LET arg == [algorithm |-> algorithm, input |-> input]
       IN IF algorithm \notin SessionAlgorithms
             THEN /\ lastOp' = Op("OpenSession", "NotSupported", arg, {})
                  /\ UNCHANGED <<sessions, exports>>
          ELSE IF algorithm = DHAlgorithm /\ (~input.isBytes \/ input.len = 0)
             THEN /\ lastOp' = Op("OpenSession", "InvalidArgs", arg, {})
                  /\ UNCHANGED <<sessions, exports>>
          ELSE \E id \in {CHOOSE x \in SessionIDs : sessions[x] = "unopened"} :
                  /\ sessions' = [sessions EXCEPT ![id] = algorithm]
                  /\ exports' = [exports EXCEPT !.session = @ \cup {id}]
                  /\ lastOp' = Op("OpenSession", "ok", arg, {id})
    /\ NoWrite
    /\ Faults(<<>>)
    /\ Emit({}, "none")
    /\ UNCHANGED <<vault, collections, nextUUID, hist, threads>>

\* Session.Close, on a session object that is still exported
SessionClose(id) ==
    /\ alive
    /\ id \in exports.session
    /\ Activity
    /\ sessions' = [sessions EXCEPT ![id] = "closed"]
    /\ exports' = [exports EXCEPT !.session = @ \ {id}]
    /\ lastOp' = Op("Close", "ok", <<>>, {})
    /\ NoWrite
    /\ Faults(<<>>)
    /\ Emit({}, "none")
    /\ UNCHANGED <<vault, collections, nextUUID, hist, threads>>

\* Service.CreateCollection; alias "" asks for no alias; o is the outcome of
\* the save of store.CreateCollection
ServiceCreateCollection(label, alias, o) ==
    /\ alive
    /\ Activity
    /\ Faults(<<o>>)
    /\ IF alias # "" /\ GetAlias(data, alias) # <<>>
          THEN /\ o = "ok"
               /\ lastOp' = Op("CreateCollection", "ok",
                               [label |-> label, alias |-> alias],
                               {CollectionPath(GetAlias(data, alias))})
               /\ NoWrite
               /\ Emit({}, "none")
               /\ UNCHANGED <<collections, exports>>
       ELSE LET lbl == IF label = <<>> THEN SecretsLabel ELSE label
                name == UniqueName(data, collectionSlug(lbl))
                d1 == StoreCreateCollection(data, name, lbl, now).data
                d2 == IF alias # "" THEN StoreSetAlias(d1, alias, name).data ELSE d1
            IN /\ Cardinality(DOMAIN data.Collections) < MaxCollections
               /\ IF o # "ok"
                     THEN /\ Write(d1, o)
                          /\ Emit({}, "failed")
                          /\ UNCHANGED <<collections, exports>>
                          /\ lastOp' = Op("CreateCollection", "Failed",
                                          [label |-> label, alias |-> alias], {})
                  ELSE /\ Write(d2, "ok")
                       /\ Emit({"CollectionCreated"}, "ok")
                       /\ exports' = updateCollectionsProp(
                                         [exports EXCEPT
                                             !.collection = @ \cup {name},
                                             !.colItems = MapPut(@, name, ListItems(d2, name))],
                                         d2)
                       /\ collections' = collections \cup {name}
                       /\ lastOp' = Op("CreateCollection", "ok",
                                       [label |-> label, alias |-> alias],
                                       {CollectionPath(name)})
    /\ UNCHANGED <<sessions, vault, nextUUID, hist, threads>>

\* Service.ReadAlias
ReadAlias(d, name) ==
    IF GetAlias(d, name) = <<>> THEN RootPath ELSE CollectionPath(GetAlias(d, name))

ServiceReadAlias(name) ==
    /\ alive
    /\ Activity
    /\ lastOp' = Op("ReadAlias", "ok", [name |-> name], ReadAlias(data, name))
    /\ NoWrite
    /\ Faults(<<>>)
    /\ Emit({}, "none")
    /\ UNCHANGED <<sessions, vault, collections, exports, nextUUID, hist, threads>>

\* Service.SetAlias; o is the outcome of the save of store.SetAlias
ServiceSetAlias(name, collection, o) ==
    /\ alive
    /\ Activity
    /\ Faults(<<o>>)
    /\ LET arg == [name |-> name, collection |-> collection]
       IN IF collection = RootPath \/ collection = <<>>
             THEN /\ Write(StoreSetAlias(data, name, <<>>).data, o)
                  /\ Emit({}, WriteStatus(o))
                  /\ IF o # "ok"
                        THEN /\ UNCHANGED exports
                             /\ lastOp' = Op("SetAlias", "Failed", arg, {})
                     ELSE /\ exports' = [exports EXCEPT !.alias = MapDelete(@, name)]
                          /\ lastOp' = Op("SetAlias", "ok", arg, {})
          ELSE LET colName == CollectionNameFromPath(collection)
                   r == StoreSetAlias(data, name, colName)
               IN IF colName = <<>>
                     THEN /\ o = "ok"
                          /\ lastOp' = Op("SetAlias", "InvalidArgs", arg, {})
                          /\ NoWrite
                          /\ Emit({}, "none")
                          /\ UNCHANGED exports
                  ELSE IF r.err
                     THEN /\ o = "ok"
                          /\ lastOp' = Op("SetAlias", "Failed", arg, {})
                          /\ NoWrite
                          /\ Emit({}, "none")
                          /\ UNCHANGED exports
                  ELSE IF o # "ok"
                     THEN /\ lastOp' = Op("SetAlias", "Failed", arg, {})
                          /\ Write(r.data, o)
                          /\ Emit({}, "failed")
                          /\ UNCHANGED exports
                  ELSE /\ Write(r.data, "ok")
                       /\ Emit({}, "ok")
                       /\ exports' = exportCollectionAtAlias(exports, collections,
                                                             name, colName)
                       /\ lastOp' = Op("SetAlias", "ok", arg, {})
    /\ UNCHANGED <<sessions, vault, collections, nextUUID, hist, threads>>

\* Service.SearchItems: the unlocked paths; the locked list is always empty
ServiceSearchItems(attrs) ==
    /\ alive
    /\ Activity
    /\ lastOp' = Op("Service.SearchItems", "ok", <<attrs>>,
                    {ItemPath(ref[1], UUIDString(ref[2])) : ref \in SearchItems(data, attrs)})
    /\ NoWrite
    /\ Faults(<<>>)
    /\ Emit({}, "none")
    /\ UNCHANGED <<sessions, vault, collections, exports, nextUUID, hist, threads>>

\* the outcome of the helper call for every path: all of them succeed
AllOk(paths) == [x \in paths |-> "ok"]

\* Service.GetSecrets: the Secret of every path of items that resolves to an
\* item whose vault entry can be read; h[path] is the outcome of the helper
\* call that reads the secret of path
ServiceGetSecrets(items, s, iv, h) ==
    /\ alive
    /\ Activity
    /\ LET \* the paths for which the loop reaches backend.Get
           InStore(path) ==
               LET ref == ItemUUIDFromPath(path)
               IN /\ ref.collection # <<>>
                  /\ ref.uuid # <<>>
                  /\ GetItemOk(data, ref.collection, UUIDOf(ref.uuid))
           Target(path) ==
               <<ItemUUIDFromPath(path).collection, UUIDOf(ItemUUIDFromPath(path).uuid)>>
           Read(path) == BridgeGet(vault, Target(path), h[path])
           reads == IF Registered(s) THEN {x \in items : InStore(x)} ELSE {}
           arg == [items |-> items, session |-> s,
                   vaultErrs |-> {x \in reads : Read(x).err # "nil"}]
           SecretOf(path) ==
               LET meta == GetItem(data, Target(path)[1], Target(path)[2])
                   e == encryptSecret(aesKey(s), Read(path).bytes, iv)
               IN [Session |-> s, Parameters |-> e.params, Value |-> e.value,
                   ContentType |-> IF meta.ContentType = "" THEN DefaultContentType
                                   ELSE meta.ContentType]
       IN /\ \A x \in items \ reads : h[x] = "ok"
          /\ Faults([x \in reads |-> h[x]])
          /\ IF ~Registered(s)
                THEN lastOp' = Op("GetSecrets", "NoSession", arg, <<>>)
             ELSE lastOp' = Op("GetSecrets", "ok", arg,
                               [path \in {x \in reads : Read(x).err = "nil"}
                                   |-> SecretOf(path)])
    /\ NoWrite
    /\ Emit({}, "none")
    /\ UNCHANGED <<sessions, vault, collections, exports, nextUUID, hist, threads>>

\* Collection.Delete, on the Collection object named c; h is the outcome of
\* the helper calls, o of the save of store.DeleteCollection
CollectionDelete(c, h, o) ==
    /\ alive
    /\ Callable(c)
    /\ UNCHANGED supVars
    /\ Faults(<<h, o>>)
    /\ LET items == ListItems(data, c)
           targets == {<<c, u>> : u \in items}
           r == StoreDeleteCollection(data, c)
           arg == [collection |-> c, items |-> items,
                   aliases |-> {a \in DOMAIN data.Aliases : data.Aliases[a] = c},
                   vaultErrs |-> {BridgeDelete(vault, t, h).err : t \in targets}]
       IN /\ targets = {} => h = "ok"
          /\ vault' = IF h = "ok" THEN [t \in DOMAIN vault \ targets |-> vault[t]]
                      ELSE vault
          /\ hist' = [t \in DOMAIN hist \ targets |-> hist[t]]
          /\ IF r.err
                THEN /\ o = "ok"
                     /\ NoWrite
                     /\ Emit({}, "none")
                     /\ exports' = [exports EXCEPT !.item = @ \ targets]
                     /\ UNCHANGED collections
                     /\ lastOp' = Op("Collection.Delete", "NoSuchObject", arg, targets)
             ELSE IF o # "ok"
                THEN /\ Write(r.data, o)
                     /\ Emit({}, "failed")
                     /\ exports' = [exports EXCEPT !.item = @ \ targets]
                     /\ UNCHANGED collections
                     /\ lastOp' = Op("Collection.Delete", "NoSuchObject", arg, targets)
             ELSE /\ Write(r.data, "ok")
                  /\ Emit({"CollectionDeleted"}, "ok")
                  /\ exports' = updateCollectionsProp(
                                    [exports EXCEPT !.item = @ \ targets,
                                                    !.collection = @ \ {c},
                                                    !.colItems = MapDelete(@, c)],
                                    r.data)
                  /\ collections' = collections \ {c}
                  /\ lastOp' = Op("Collection.Delete", "ok", arg, targets)
    /\ UNCHANGED <<sessions, nextUUID, threads>>

\* Collection.SearchItems, on the Collection object named c
CollectionSearchItems(c, attrs) ==
    /\ alive
    /\ Callable(c)
    /\ UNCHANGED supVars
    /\ lastOp' = Op("Collection.SearchItems", "ok", <<attrs>>,
                    {ItemPath(ref[1], UUIDString(ref[2])) :
                        ref \in SearchItemsInCollection(data, c, attrs)})
    /\ NoWrite
    /\ Faults(<<>>)
    /\ Emit({}, "none")
    /\ UNCHANGED <<sessions, vault, collections, exports, nextUUID, hist, threads>>

\* Collection.CreateItem, on the Collection object named c, with the Secret a
\* client built for payload p over session s; o is the outcome of the save of
\* store.UpdateItem or store.CreateItem
CollectionCreateItem(c, s, attrs, p, replace, iv, o) ==
    /\ alive
    /\ Callable(c)
    /\ UNCHANGED supVars
    /\ Faults(<<o>>)
    /\ LET secret == ClientSecret(s, p, iv, DefaultContentType)
           meta == itemMetaFromProperties(<<"I">>, attrs)
           refs == IF replace /\ DOMAIN meta.Attributes # {}
                      THEN SearchItemsInCollection(data, c, meta.Attributes)
                   ELSE {}
           arg == [collection |-> c, session |-> s, attrs |-> attrs,
                   replace |-> replace]
       IN IF ~Registered(s)
             THEN /\ o = "ok"
                  /\ lastOp' = Op("CreateItem", "NoSession", arg, {})
                  /\ NoWrite
                  /\ Emit({}, "none")
                  /\ UNCHANGED <<vault, exports, nextUUID, hist, threads>>
          ELSE \E targetUUID \in IF refs # {} THEN {ref[2] : ref \in refs}
                                 ELSE {nextUUID} :
                  LET target == <<c, targetUUID>>
                      r == IF GetItemOk(data, c, targetUUID)
                              THEN StoreUpdateItem(data, c, targetUUID, meta, now)
                           ELSE StoreCreateItem(data, c, targetUUID, meta, now)
                      first == IF target \in DOMAIN hist THEN hist[target].first
                               ELSE <<p, sessions[s]>>
                  IN /\ refs = {} => nextUUID <= MaxItems
                     /\ nextUUID' = IF refs = {} THEN nextUUID + 1 ELSE nextUUID
                     /\ vault' = MapPut(vault, target, secret.Value)
                     /\ IF r.err
                           THEN /\ o = "ok"
                                /\ lastOp' = Op("CreateItem", "Failed", arg, {})
                                /\ NoWrite
                                /\ Emit({}, "none")
                                /\ UNCHANGED <<exports, hist, threads>>
                        ELSE IF o # "ok"
                           THEN /\ lastOp' = Op("CreateItem", "Failed", arg, {})
                                /\ Write(r.data, o)
                                /\ Emit({}, "failed")
                                /\ UNCHANGED <<exports, hist, threads>>
                        ELSE /\ Write(r.data, "ok")
                             /\ Emit({"ItemCreated"}, "ok")
                             /\ exports' = updateCollectionItemsProp(
                                               [exports EXCEPT !.item = @ \cup {target}],
                                               collections, r.data, c)
                             /\ hist' = MapPut(hist, target,
                                   [first |-> first,
                                    last |-> <<p, sessions[s]>>])
                             /\ lastOp' = Op("CreateItem", "ok", arg, {target})
    /\ UNCHANGED <<sessions, collections, threads>>

\* Item.GetSecret, on the Item object i = <<collection, uuid>>; h is the
\* outcome of the helper call that reads the secret
ItemGetSecret(i, s, iv, h) ==
    /\ alive
    /\ i \in exports.item
    /\ Activity
    /\ Faults(<<h>>)
    /\ LET r == BridgeGet(vault, i, h)
           reads == Registered(s) /\ GetItemOk(data, i[1], i[2])
           arg == [item |-> i, session |-> s, helper |-> h]
       IN /\ ~reads => h = "ok"
          /\ IF ~Registered(s)
                THEN lastOp' = Op("GetSecret", "NoSession", arg, NoSecret)
             ELSE IF ~GetItemOk(data, i[1], i[2])
                THEN lastOp' = Op("GetSecret", "NoSuchObject", arg, NoSecret)
             ELSE IF r.err # "nil"
                THEN lastOp' = Op("GetSecret", "IsLocked", arg, NoSecret)
             ELSE LET meta == GetItem(data, i[1], i[2])
                      ct == IF meta.ContentType = "" THEN DefaultContentType
                            ELSE meta.ContentType
                      e == encryptSecret(aesKey(s), r.bytes, iv)
                  IN lastOp' = Op("GetSecret", "ok", arg,
                                  [Session |-> s, Parameters |-> e.params,
                                   Value |-> e.value, ContentType |-> ct])
    /\ NoWrite
    /\ Emit({}, "none")
    /\ UNCHANGED <<sessions, vault, collections, exports, nextUUID, hist, threads>>

\* Item.SetSecret, with the Secret a client built for payload p over session
\* s; o is the outcome of the save of store.UpdateItem
ItemSetSecret(i, s, p, ct, iv, o) ==
    /\ alive
    /\ i \in exports.item
    /\ Activity
    /\ Faults(<<o>>)
    /\ LET sec == ClientSecret(s, p, iv, ct)
           d == decryptSecret(aesKey(s), sec.Parameters, sec.Value)
           arg == [item |-> i, session |-> s, payload |-> p, ContentType |-> ct]
       IN IF ~Registered(s)
             THEN /\ o = "ok"
                  /\ lastOp' = Op("SetSecret", "NoSession", arg, {})
                  /\ NoWrite
                  /\ Emit({}, "none")
                  /\ UNCHANGED <<vault, hist, threads>>
          ELSE IF d.err
             THEN /\ o = "ok"
                  /\ lastOp' = Op("SetSecret", "Failed", arg, {})
                  /\ NoWrite
                  /\ Emit({}, "none")
                  /\ UNCHANGED <<vault, hist, threads>>
          ELSE /\ vault' = MapPut(vault, i, d.bytes)
               /\ IF GetItemOk(data, i[1], i[2])
                     THEN /\ Write(StoreUpdateItem(data, i[1], i[2],
                                      [GetItem(data, i[1], i[2]) EXCEPT
                                          !.ContentType = sec.ContentType],
                                      now).data, o)
                          /\ Emit({"ItemChanged"}, WriteStatus(o))
                  ELSE /\ o = "ok"
                       /\ NoWrite
                       /\ Emit({"ItemChanged"}, "none")
               /\ hist' = MapDelete(hist, i)
               /\ lastOp' = Op("SetSecret", "ok", arg, {})
    /\ UNCHANGED <<sessions, collections, exports, nextUUID, threads>>

\* Item.Delete; h is the outcome of the helper call, o of the save of
\* store.DeleteItem
ItemDelete(i, h, o) ==
    /\ alive
    /\ i \in exports.item
    /\ Activity
    /\ Faults(<<h, o>>)
    /\ vault' = BridgeDelete(vault, i, h).vault
    /\ hist' = MapDelete(hist, i)
    /\ LET r == StoreDeleteItem(data, i[1], i[2], now)
           arg == [item |-> i, vaultErrs |-> {BridgeDelete(vault, i, h).err}]
       IN IF r.err
             THEN /\ o = "ok"
                  /\ lastOp' = Op("Item.Delete", "NoSuchObject", arg, {})
                  /\ NoWrite
                  /\ Emit({}, "none")
                  /\ UNCHANGED exports
          ELSE IF o # "ok"
             THEN /\ lastOp' = Op("Item.Delete", "NoSuchObject", arg, {})
                  /\ Write(r.data, o)
                  /\ Emit({}, "failed")
                  /\ UNCHANGED exports
          ELSE /\ Write(r.data, "ok")
               /\ Emit({"ItemDeleted"}, "ok")
               /\ exports' = updateCollectionItemsProp(
                                 [exports EXCEPT !.item = @ \ {i}],
                                 collections, r.data, i[1])
               /\ lastOp' = Op("Item.Delete", "ok", arg, {})
    /\ UNCHANGED <<sessions, collections, nextUUID, threads>>

\* a write of the Label or of the Attributes property of the Item object i:
\* the Callback of the property, then the properties-changed signal that
\* prop.Properties emits once the Callback has returned nil
ItemSetProperty(i, property, value, o) ==
    /\ alive
    /\ i \in exports.item
    /\ UNCHANGED supVars
    /\ Faults(<<o>>)
    /\ IF GetItemOk(data, i[1], i[2])
          THEN LET m == GetItem(data, i[1], i[2])
                   n == IF property = "Label" THEN [m EXCEPT !.Label = value]
                        ELSE [m EXCEPT !.Attributes = value]
               IN /\ Write(StoreUpdateItem(data, i[1], i[2], n, now).data, o)
                  /\ Emit({"PropertiesChanged"}, WriteStatus(o))
       ELSE /\ o = "ok"
            /\ NoWrite
            /\ Emit({"PropertiesChanged"}, "none")
    /\ lastOp' = Op("Item.Set" \o property, "ok", [item |-> i], {})
    /\ UNCHANGED <<sessions, vault, collections, exports, nextUUID, hist, threads>>

\* a write of the Label property of the Collection object named c
CollectionSetLabel(c, label, o) ==
    /\ alive
    /\ c \in exports.collection
    /\ UNCHANGED supVars
    /\ Faults(<<o>>)
    /\ LET r == StoreUpdateCollectionLabel(data, c, label, now)
       IN IF r.err
             THEN /\ o = "ok"
                  /\ NoWrite
                  /\ Emit({"PropertiesChanged"}, "none")
          ELSE /\ Write(r.data, o)
               /\ Emit({"PropertiesChanged"}, WriteStatus(o))
    /\ lastOp' = Op("Collection.SetLabel", "ok", [collection |-> c], {})
    /\ UNCHANGED <<sessions, vault, collections, exports, nextUUID, hist, threads>>

\* the daemon is stopped and started again: store.New, then service.New; the
\* vault lives outside the process
ServiceRestart ==
    /\ alive
    /\ Activity
    /\ \E r \in {New(disk, now, "ok")} :
          /\ data' = r.data
          /\ disk' = r.disk
          /\ committed' = r.data
          /\ collections' = ServiceNew(r.data).collections
          /\ exports' = ServiceNew(r.data).exports
    /\ sessions' = [id \in SessionIDs |->
                       IF sessions[id] = "unopened" THEN "unopened" ELSE "closed"]
    /\ lastOp' = Op("New", "ok", <<>>, {})
    /\ Emit({}, "none")
    /\ UNCHANGED <<alive, faults, vault, nextUUID, hist, threads>>

\* SecretSpec: sessions, and the secrets of the items of collection login
TagV == [k \in {"tag"} |-> "v"]
\* the input a client passes with the algorithm: the empty string for plain,
\* its 128-byte public key for dh
SessionInput(a) == IF a = DHAlgorithm THEN ByteArray(dhGroupSize) ELSE EmptyString
\* the paths clients pass to GetSecrets: the items of login, and login itself
SecretPaths ==
    {ItemPath(login, UUIDString(u)) : u \in 1..MaxItems} \cup {CollectionPath(login)}
SecretNext ==
    \/ \E a \in SessionAlgorithms : ServiceOpenSession(a, SessionInput(a))
    \/ \E id \in SessionIDs : SessionClose(id)
    \/ \E s \in SessionIDs, p \in Payloads, replace \in BOOLEAN, iv \in ClientIVs :
          CollectionCreateItem(login, s, TagV, p, replace, iv, "ok")
    \/ \E i \in exports.item, s \in SessionIDs, iv \in IVs : ItemGetSecret(i, s, iv, "ok")
    \/ \E i \in exports.item, s \in SessionIDs, p \in Payloads, iv \in ClientIVs :
          ItemSetSecret(i, s, p, OctetStream, iv, "ok")
    \/ \E i \in exports.item : ItemDelete(i, "ok", "ok")
    \/ \E items \in SUBSET SecretPaths, s \in SessionIDs, iv \in ClientIVs :
          ServiceGetSecrets(items, s, iv, AllOk(items))
    \/ ServiceRestart

SecretSpec == ServiceInit /\ [][SecretNext]_vars

\* CollectionSpec: collections, their aliases and their items, over one plain
\* session
CollectionNext ==
    \/ ServiceOpenSession("plain", EmptyString)
    \/ \E l \in SvcLabels, a \in SvcAliasNames \cup {""} :
          ServiceCreateCollection(l, a, "ok")
    \/ \E a \in SvcAliasNames : ServiceSetAlias(a, RootPath, "ok")
    \/ \E a \in SvcAliasNames, n \in SvcNames :
          ServiceSetAlias(a, CollectionPath(n), "ok")
    \/ \E c \in SvcNames : CollectionDelete(c, "ok", "ok")
    \/ \E c \in SvcNames, s \in SessionIDs, a \in AttrMaps :
          CollectionCreateItem(c, s, a, "p", FALSE, "iv1", "ok")
    \/ \E i \in exports.item : ItemDelete(i, "ok", "ok")
    \/ ServiceRestart

CollectionSpec == ServiceInit /\ [][CollectionNext]_vars

\* FaultSpec: collections, items and their properties over one plain session,
\* with saves and helper calls that fail
FaultNext ==
    \/ ServiceOpenSession("plain", EmptyString)
    \/ \E l \in SvcLabels, o \in SvcSaveOutcomes : ServiceCreateCollection(l, "", o)
    \/ \E c \in SvcNames, h \in HelperOutcomes, o \in SvcSaveOutcomes :
          CollectionDelete(c, h, o)
    \/ \E c \in SvcNames, o \in SvcSaveOutcomes : CollectionSetLabel(c, <<"V">>, o)
    \/ \E o \in SvcSaveOutcomes :
          CollectionCreateItem(login, "s1", TagV, "p", FALSE, "iv1", o)
    \/ \E i \in exports.item, o \in SvcSaveOutcomes :
          ItemSetSecret(i, "s1", "q", OctetStream, "iv1", o)
    \/ \E i \in exports.item, o \in SvcSaveOutcomes :
          ItemSetProperty(i, "Label", <<"J">>, o)
    \/ \E i \in exports.item, o \in SvcSaveOutcomes :
          ItemSetProperty(i, "Attributes", <<>>, o)
    \/ \E i \in exports.item, h \in HelperOutcomes, o \in SvcSaveOutcomes :
          ItemDelete(i, h, o)

FaultSpec == ServiceInit /\ [][FaultNext]_vars

\* ReplaceSpec: items of login created with and without replace, under
\* attribute maps that contain one another
ReplaceAttrMaps ==
    {<<>>, [k \in {"tag"} |-> "v"], [k \in {"user"} |-> "a"],
     [k \in {"tag", "user"} |-> IF k = "tag" THEN "v" ELSE "a"]}

ReplaceNext ==
    \/ ServiceOpenSession("plain", EmptyString)
    \/ \E a \in ReplaceAttrMaps, p \in Payloads, replace \in BOOLEAN :
          CollectionCreateItem(login, "s1", a, p, replace, "iv1", "ok")
    \/ \E i \in exports.item, a \in ReplaceAttrMaps :
          ItemSetProperty(i, "Attributes", a, "ok")
    \/ \E i \in exports.item : ItemDelete(i, "ok", "ok")

ReplaceSpec == ServiceInit /\ [][ReplaceNext]_vars

\* AliasSpec: aliases set to paths of every shape, read back, and collections
\* created and deleted meanwhile
AliasPaths ==
    {RootPath, <<>>, ServicePath, CollectionPathPrefix,
     ItemPath(login, UUIDString(1)), SessionPath(UUIDString(1))}
        \cup {CollectionPath(n) : n \in SvcNames}
\* an alias name no call sets
UnsetAliasNames == {"unset"}

AliasNext ==
    \/ \E l \in SvcLabels, a \in {"", "primary"} : ServiceCreateCollection(l, a, "ok")
    \/ \E a \in AliasNames, path \in AliasPaths : ServiceSetAlias(a, path, "ok")
    \/ \E a \in AliasNames \cup UnsetAliasNames : ServiceReadAlias(a)
    \/ \E c \in SvcNames : CollectionDelete(c, "ok", "ok")

AliasSpec == ServiceInit /\ [][AliasNext]_vars

\* GetSecretsSpec: Service.GetSecrets over paths of every kind, over plain
\* and DH sessions, with helper calls that fail
AliasPathPrefix ==
    ServicePath \o <<"/", "a", "l", "i", "a", "s", "e", "s", "/">>
GetSecretsPaths ==
    {ItemPath(login, UUIDString(u)) : u \in 1..(MaxItems + 1)}
        \cup {CollectionPath(login), SessionPath(UUIDString(1)),
              AliasPathPrefix \o <<"d", "e", "f", "a", "u", "l", "t">>}

\* path is the path of an item that d holds
NamesItem(d, path) ==
    \E c \in DOMAIN d.Collections : \E u \in DOMAIN d.Collections[c].Items :
        path = ItemPath(c, UUIDString(u))
\* the item that path names
ItemAt(d, path) ==
    CHOOSE t \in {<<c, u>> : c \in DOMAIN d.Collections, u \in 1..(MaxItems + 1)} :
        path = ItemPath(t[1], UUIDString(t[2]))
GetSecretsNext ==
    \/ \E a \in SessionAlgorithms : ServiceOpenSession(a, SessionInput(a))
    \/ \E id \in SessionIDs : SessionClose(id)
    \/ \E s \in SessionIDs : CollectionCreateItem(login, s, TagV, "p", FALSE, "iv1", "ok")
    \/ \E i \in exports.item, s \in SessionIDs :
          ItemSetSecret(i, s, "q", OctetStream, "iv1", "ok")
    \/ \E i \in exports.item : ItemDelete(i, "ok", "ok")
    \/ \E items \in SUBSET GetSecretsPaths, s \in SessionIDs :
          \E bad \in SUBSET {x \in items : NamesItem(data, x)},
             k \in HelperOutcomes \ {"ok"} :
                ServiceGetSecrets(items, s, "iv2",
                                  [x \in items |-> IF x \in bad THEN k ELSE "ok"])

GetSecretsSpec == ServiceInit /\ [][GetSecretsNext]_vars

\* the payload of item t: the one its last CreateItem was given, or what the
\* vault holds once a SetSecret replaced it
PayloadOf(t) == IF t \in DOMAIN hist THEN Plain(hist[t].last[1]) ELSE vault[t]

\* C21: over an open session, Service.GetSecrets returns a mapping whose keys
\* are exactly the requested paths that name an item of the store whose vault
\* read succeeded, each mapped to a Secret that carries the item's payload
\* encoded for the session; the other paths are left out and the call
\* succeeds.
GetSecretsResult ==
    (lastOp.op = "GetSecrets" /\ Registered(lastOp.arg.session)) =>
        /\ lastOp.status = "ok"
        /\ DOMAIN lastOp.result =
              {x \in lastOp.arg.items :
                  NamesItem(data, x) /\ x \notin lastOp.arg.vaultErrs}
        /\ \A x \in DOMAIN lastOp.result :
              /\ lastOp.result[x].Session = lastOp.arg.session
              /\ aesKey(lastOp.arg.session) = "nil" => lastOp.result[x].Parameters = ""
              /\ decryptSecret(aesKey(lastOp.arg.session),
                               lastOp.result[x].Parameters, lastOp.result[x].Value)
                 = [err |-> FALSE, bytes |-> PayloadOf(ItemAt(data, x))]

\* the operations on an item that is already there
ItemWrites == {"SetSecret", "Item.SetLabel", "Item.SetAttributes", "CreateItem"}

\* C23: every item of the store has a created time that is not zero, and
\* SetSecret, a write of Label or Attributes and a CreateItem with replace
\* that reuses the item's uuid leave the created time of the item as it was.
CreatedSetOnce ==
    [][\A c \in DOMAIN data'.Collections : \A u \in DOMAIN data'.Collections[c].Items :
          /\ GetItem(data', c, u).Created # 0
          /\ (GetItemOk(data, c, u) /\ lastOp'.op \in ItemWrites) =>
                GetItem(data', c, u).Created = GetItem(data, c, u).Created]_vars

\* IsolationSpec: the daemon started on the config directory and the vault
\* of an earlier run that left one item in login; items are created beside
\* it, written and deleted, with saves and helper calls that fail
EarlierUUID == MaxItems + 1
EarlierData ==
    StoreCreateItem(New([main |-> NoFile, tmp |-> NoFile], 1, "ok").data, login,
                    EarlierUUID, ItemMetaOf(<<"O">>, TagV, DefaultContentType), 1).data

IsolationInit ==
    /\ supIdle
    /\ alive = TRUE
    /\ data = EarlierData
    /\ disk = [main |-> FullFile(EarlierData), tmp |-> NoFile]
    /\ committed = EarlierData
    /\ faults = 0
    /\ lastOp = Op("New", "ok", <<>>, {})
    /\ sessions = [id \in SessionIDs |-> "unopened"]
    /\ vault = [t \in {<<login, EarlierUUID>>} |-> Plain("p")]
    /\ collections = ServiceNew(data).collections
    /\ exports = ServiceNew(data).exports
    /\ nextUUID = 1
    /\ emitted = {}
    /\ wrote = "none"
    /\ hist = <<>>
    /\ threads = NoThreads

IsolationNext ==
    \/ ServiceOpenSession("plain", EmptyString)
    \/ \E a \in AttrMaps, o \in SvcSaveOutcomes :
          CollectionCreateItem(login, "s1", a, "q", FALSE, "iv1", o)
    \/ \E i \in exports.item, o \in SvcSaveOutcomes :
          ItemSetSecret(i, "s1", "q", OctetStream, "iv1", o)
    \/ \E i \in exports.item, h \in HelperOutcomes, o \in SvcSaveOutcomes :
          ItemDelete(i, h, o)

IsolationSpec == IsolationInit /\ [][IsolationNext]_vars

\* C25: Item.Delete on an item leaves every other item as it was: its
\* metadata, its presence in the result of every search, and its vault
\* payload.
DeleteIsolation ==
    [][lastOp'.op = "Item.Delete" =>
          \A c \in DOMAIN data.Collections : \A u \in DOMAIN data.Collections[c].Items :
              <<c, u>> # lastOp'.arg.item =>
                  /\ GetItemOk(data', c, u)
                  /\ GetItem(data', c, u) = GetItem(data, c, u)
                  /\ \A q \in SearchAttrMaps :
                        /\ <<c, u>> \in SearchItems(data', q)
                              <=> <<c, u>> \in SearchItems(data, q)
                        /\ <<c, u>> \in SearchItemsInCollection(data', c, q)
                              <=> <<c, u>> \in SearchItemsInCollection(data, c, q)
                  /\ <<c, u>> \in DOMAIN vault' <=> <<c, u>> \in DOMAIN vault
                  /\ <<c, u>> \in DOMAIN vault => vault'[<<c, u>>] = vault[<<c, u>>]]_vars

\* Item.Delete removed the item that CreateItem had made beside the item of
\* the earlier run, which is still found under its attributes and still has
\* its payload in the vault
DeleteIsolationWitness ==
    /\ lastOp.op = "Item.Delete"
    /\ lastOp.status = "ok"
    /\ lastOp.arg.item = <<login, 1>>
    /\ ~GetItemOk(data, login, 1)
    /\ <<login, 1>> \notin DOMAIN vault
    /\ <<login, EarlierUUID>> \in SearchItems(data, TagV)
    /\ vault[<<login, EarlierUUID>>] = Plain("p")

\* GetSecretSpec: Item.GetSecret over sessions that are open, closed or never
\* opened, on items whose metadata or vault entry may be gone, with helper
\* calls and saves that fail
GetSecretNext ==
    \/ \E a \in SessionAlgorithms : ServiceOpenSession(a, SessionInput(a))
    \/ \E id \in SessionIDs : SessionClose(id)
    \/ \E s \in SessionIDs : CollectionCreateItem(login, s, TagV, "p", FALSE, "iv1", "ok")
    \/ \E i \in exports.item, h \in HelperOutcomes, o \in SvcSaveOutcomes :
          ItemDelete(i, h, o)
    \/ \E i \in exports.item, s \in SessionIDs, h \in HelperOutcomes :
          ItemGetSecret(i, s, "iv2", h)
    \/ ServiceRestart

GetSecretSpec == ServiceInit /\ [][GetSecretNext]_vars

NamingLabels ==
    {<<>>, LoginLabel, <<"L", "o", "g", "i", "n", "2">>, <<"W", " ", "2">>,
     <<"!", "?">>, <<"c", "o", "l", "l", "e", "c", "t", "i", "o", "n">>}

NamingNext ==
    \/ \E l \in NamingLabels, a \in {"", "default", "primary"} :
          ServiceCreateCollection(l, a, "ok")
    \/ \E c \in DOMAIN data.Collections : CollectionDelete(c, "ok", "ok")
    \/ \E a \in {"default", "primary"} : ServiceSetAlias(a, RootPath, "ok")

NamingSpec == ServiceInit /\ [][NamingNext]_vars

\* name matches [a-z0-9]+
IsSlugName(name) == name # <<>> /\ \A i \in DOMAIN name : IsSlugChar(name[i])

\* base if no collection of names has it, else base followed by the smallest
\* k >= 2 that no collection of names has
FirstUnused(names, base) ==
    IF base \notin names THEN base
    ELSE base \o Decimal(CHOOSE k \in 2..(Cardinality(names) + 2) :
                            /\ base \o Decimal(k) \notin names
                            /\ \A j \in 2..(k - 1) : base \o Decimal(j) \in names)

\* a store that holds the collections of names
StoreWith(names) ==
    [EmptyData EXCEPT !.Collections =
        [n \in names |-> [Label |-> n, Created |-> 1, Modified |-> 1, Items |-> <<>>]]]

\* the name of CreateCollection's new collection is named(label), and what
\* the call did is as the naming rule tells
NamedBy(named(_)) ==
    (/\ lastOp'.op = "CreateCollection"
     /\ (lastOp'.arg.alias = "" \/ GetAlias(data, lastOp'.arg.alias) = <<>>))
    => LET name == FirstUnused(DOMAIN data.Collections, named(lastOp'.arg.label))
       IN /\ DOMAIN data'.Collections = DOMAIN data.Collections \cup {name}
          /\ name \notin DOMAIN data.Collections
          /\ lastOp'.result = {CollectionPath(name)}
          /\ \A c \in DOMAIN data.Collections :
                data'.Collections[c] = data.Collections[c]
          /\ \A c \in DOMAIN data'.Collections : IsSlugName(c)
          /\ \A names \in SUBSET {login, login \o <<"2">>, login \o <<"3">>} :
                UniqueName(StoreWith(names), login) = FirstUnused(names, login)

\* C22 as stated: a CreateCollection whose alias does not resolve creates
\* exactly one collection, named slug(label) if unused and else slug(label)
\* followed by the smallest k >= 2 that makes it unused.
CollectionNamingOfLabel == [][NamedBy(collectionSlug)]_vars

\* the label CreateCollection slugs: "Secrets" when the properties hold no
\* label or an empty one
EffectiveLabel(label) == IF label = <<>> THEN SecretsLabel ELSE label
SlugOfEffectiveLabel(label) == collectionSlug(EffectiveLabel(label))

\* C22: a CreateCollection whose alias does not resolve creates exactly one
\* collection; its name is the slug of the label, or of "Secrets" when the
\* label is empty, if that is unused, and else that slug followed by the
\* smallest k >= 2 that makes it unused; the existing collections are
\* untouched and every name matches [a-z0-9]+.
CollectionNaming == [][NamedBy(SlugOfEffectiveLabel)]_vars

\* CreateCollection under the label Login made login2 beside login
CollectionNamingWitness ==
    /\ lastOp.op = "CreateCollection"
    /\ lastOp.arg.label = LoginLabel
    /\ lastOp.result = {CollectionPath(login \o <<"2">>)}
    /\ DOMAIN data.Collections = {login, login \o <<"2">>}

\* SessionSpec: sessions opened under every algorithm and input, used to store
\* one item, and closed
Algorithms == SessionAlgorithms \cup {"dh-ietf1536-sha256-aes128-cbc-pkcs7"}
SessionInputs ==
    {EmptyString, ByteArray(0), ByteArray(1), ByteArray(dhGroupSize - 1),
     ByteArray(dhGroupSize), ByteArray(dhGroupSize + 1)}

SessionNext ==
    \/ \E a \in Algorithms, input \in SessionInputs : ServiceOpenSession(a, input)
    \/ \E id \in SessionIDs : SessionClose(id)
    \/ \E s \in SessionIDs, p \in Payloads, iv \in ClientIVs :
          CollectionCreateItem(login, s, TagV, p, TRUE, iv, "ok")
    \/ ServiceRestart

SessionSpec == ServiceInit /\ [][SessionNext]_vars

\* the input is a peer public key: a byte array of 128 bytes
WellFormedKey(input) == input.isBytes /\ input.len = dhGroupSize

\* C20: Service.OpenSession returns NotSupported for an algorithm other than
\* plain and dh-ietf1024-sha256-aes128-cbc-pkcs7, and InvalidArgs for the DH
\* algorithm with an input that is no 128-byte byte array; either way the
\* registry and the exported session objects are unchanged.
OpenSessionErrors ==
    [][lastOp'.op = "OpenSession" =>
          /\ lastOp'.arg.algorithm \notin SessionAlgorithms =>
                lastOp'.status = "NotSupported" /\ UNCHANGED <<sessions, exports>>
          /\ (/\ lastOp'.arg.algorithm = DHAlgorithm
              /\ ~WellFormedKey(lastOp'.arg.input)) =>
                lastOp'.status = "InvalidArgs" /\ UNCHANGED <<sessions, exports>>]_vars

(***************************************************************************)
(* BridgeSpec: the bridge to the helper called on its own, with secrets of *)
(* the lengths around the bound.                                           *)
(***************************************************************************)
BridgeTargets == {<<login, u>> : u \in 1..(MaxItems + 1)}
SecretLens ==
    {0, 1, maxSecretBytes - 1, maxSecretBytes, maxSecretBytes + 1, 2 * maxSecretBytes}

BridgeInit ==
    /\ supIdle
    /\ alive = TRUE
    /\ data = EmptyData
    /\ disk = [main |-> NoFile, tmp |-> NoFile]
    /\ committed = EmptyData
    /\ faults = 0
    /\ lastOp = NoOp
    /\ svcIdle

BridgeCall(name, arg, res) ==
    /\ vault' = res.vault
    /\ lastOp' = Op(name, res.err, arg, {})
    /\ UNCHANGED <<supVars, alive, data, disk, committed, faults>>
    /\ UNCHANGED <<sessions, collections, exports, nextUUID, emitted, wrote, hist, threads>>

BridgeSetCall(target, n, h) ==
    BridgeCall("Bridge.Set", [target |-> target, len |-> n, helper |-> h],
               BridgeSet(vault, target, Zeros(n), h))

BridgeDeleteCall(target, h) ==
    BridgeCall("Bridge.Delete", [target |-> target, helper |-> h],
               BridgeDelete(vault, target, h))

BridgeGetCall(target, h) ==
    BridgeCall("Bridge.Get", [target |-> target, helper |-> h],
               [vault |-> vault, err |-> BridgeGet(vault, target, h).err])

BridgeNext ==
    \/ \E t \in BridgeTargets, n \in SecretLens, h \in HelperOutcomes :
          BridgeSetCall(t, n, h)
    \/ \E t \in BridgeTargets, h \in HelperOutcomes : BridgeDeleteCall(t, h)
    \/ \E t \in BridgeTargets, h \in HelperOutcomes : BridgeGetCall(t, h)

BridgeSpec == BridgeInit /\ [][BridgeNext]_vars

RECURSIVE Repeat(_, _)
Repeat(ch, n) == IF n = 0 THEN <<>> ELSE <<ch>> \o Repeat(ch, n - 1)

\* a uuid in canonical form, 8-4-4-4-12 hexadecimal digits: the digit x in
\* the first, third and fifth group and y in the others
CanonicalUUID(x, y) ==
    Repeat(x, 8) \o <<"-">> \o Repeat(y, 4) \o <<"-">> \o Repeat(x, 4) \o <<"-">>
        \o Repeat(y, 4) \o <<"-">> \o Repeat(x, 12)
HexDigits == {"0", "9", "a", "f"}

\* the names and uuids the codec is applied to: collection names of the
\* naming rule, uuids in canonical form, and a uuid that holds an underscore
PathNames ==
    {login, <<"w">>, <<"w", "2">>, <<"0">>, <<"a", "1", "b">>, <<"z", "9">>,
     <<"s", "e", "c", "r", "e", "t", "s">>}
PathUUIDs ==
    {CanonicalUUID(x, y) : x \in HexDigits, y \in HexDigits}
        \cup {UUIDString(1), <<"a", "_", "b">>}

PromptPathPrefix ==
    ServicePath \o <<"/", "p", "r", "o", "m", "p", "t", "/">>
\* the paths of the daemon's objects that are neither collections nor items,
\* and some that are
DecodedPaths ==
    {RootPath, ServicePath, CollectionPathPrefix,
     PromptPathPrefix \o <<"s", "t", "u", "b">>,
     AliasPathPrefix \o <<"d", "e", "f", "a", "u", "l", "t">>,
     SessionPath(UUIDString(1)), SessionPath(CanonicalUUID("0", "a")),
     CollectionPath(login), ItemPath(login, CanonicalUUID("0", "a"))}

PathInit == BridgeInit

\* ItemPath, and ItemUUIDFromPath of the path
ItemPathCall(collection, uuid) ==
    /\ lastOp' = Op("ItemPath", "ok", [collection |-> collection, uuid |-> uuid],
                    [path |-> ItemPath(collection, uuid),
                     decoded |-> ItemUUIDFromPath(ItemPath(collection, uuid))])
    /\ UNCHANGED <<supVars, alive, data, disk, committed, faults, svcVars>>

\* CollectionNameFromPath and ItemUUIDFromPath of a path
DecodeCall(path) ==
    /\ lastOp' = Op("Decode", "ok", [path |-> path],
                    [name |-> CollectionNameFromPath(path),
                     item |-> ItemUUIDFromPath(path)])
    /\ UNCHANGED <<supVars, alive, data, disk, committed, faults, svcVars>>

PathNext ==
    \/ \E c \in PathNames, u \in PathUUIDs : ItemPathCall(c, u)
    \/ \E path \in DecodedPaths : DecodeCall(path)

PathSpec == PathInit /\ [][PathNext]_vars

IsHex(ch) == ch \in {"a", "b", "c", "d", "e", "f"} \/ \E i \in DOMAIN Digits : Digits[i] = ch
\* 8-4-4-4-12 hexadecimal digits joined by hyphens
IsCanonicalUUID(u) ==
    /\ Len(u) = 36
    /\ \A i \in 1..36 : IF i \in {9, 14, 19, 24} THEN u[i] = "-" ELSE IsHex(u[i])

\* C27: for a collection name that matches [a-z0-9]+ and a uuid in canonical
\* hyphenated form, ItemUUIDFromPath(ItemPath(collection, uuid)) is
\* (collection, uuid), and the path holds no hyphen.
PathRoundTrip ==
    (/\ lastOp.op = "ItemPath"
     /\ IsSlugName(lastOp.arg.collection)
     /\ IsCanonicalUUID(lastOp.arg.uuid)) =>
        /\ lastOp.result.decoded =
              [collection |-> lastOp.arg.collection, uuid |-> lastOp.arg.uuid]
        /\ \A i \in DOMAIN lastOp.result.path : lastOp.result.path[i] # "-"

\* the path of an item of login under a canonical uuid: it spells the uuid
\* with underscores and decodes to the uuid with hyphens
PathRoundTripWitness ==
    /\ lastOp.op = "ItemPath"
    /\ lastOp.arg = [collection |-> login, uuid |-> CanonicalUUID("a", "9")]
    /\ lastOp.result.path =
          CollectionPath(login) \o <<"/">> \o Repeat("a", 8) \o <<"_">> \o Repeat("9", 4)
              \o <<"_">> \o Repeat("a", 4) \o <<"_">> \o Repeat("9", 4) \o <<"_">>
              \o Repeat("a", 12)
    /\ lastOp.result.decoded.uuid = CanonicalUUID("a", "9")

\* path begins with prefix
HasPrefix(path, prefix) ==
    Len(path) >= Len(prefix) /\ SubSeq(path, 1, Len(prefix)) = prefix

\* C28: CollectionNameFromPath and ItemUUIDFromPath return empty results for
\* every path that does not start with /org/freedesktop/secrets/collection/,
\* whatever its length.
ForeignPathsDecodeEmpty ==
    (lastOp.op = "Decode" /\ ~HasPrefix(lastOp.arg.path, CollectionPathPrefix)) =>
        /\ lastOp.result.name = <<>>
        /\ lastOp.result.item = [collection |-> <<>>, uuid |-> <<>>]

(***************************************************************************)
(* Claims about the service.                                               *)
(***************************************************************************)

\* the last call was Item.GetSecret over a session of algorithm alg, on an
\* item whose payload CreateItem supplied and no SetSecret or Delete touched
GotSecret(alg) ==
    /\ lastOp.op = "GetSecret"
    /\ sessions[lastOp.arg.session] = alg
    /\ lastOp.arg.item \in DOMAIN hist

\* C2: CreateItem over a DH session stores the payload itself in the vault,
\* and the Secret a later GetSecret returns over a DH session decrypts, under
\* that session's key and the returned iv, to the payload.
DHRoundTrip ==
    /\ \A i \in DOMAIN hist :
          hist[i].last[2] = "dh" => vault[i] = Plain(hist[i].last[1])
    /\ (GotSecret("dh") /\ hist[lastOp.arg.item].last[2] = "dh") =>
          /\ lastOp.status = "ok"
          /\ decryptSecret(aesKey(lastOp.arg.session), lastOp.result.Parameters,
                           lastOp.result.Value)
             = [err |-> FALSE, bytes |-> Plain(hist[lastOp.arg.item].last[1])]

\* the Secret a plain session returns for payload p
PlainSecret(p) ==
    [Session |-> lastOp.arg.session, Parameters |-> "", Value |-> Plain(p),
     ContentType |-> DefaultContentType]

\* C5 as stated: GetSecret over a plain session returns the payload of every
\* CreateItem that succeeded over a plain session on the item since the last
\* SetSecret or Delete on it.
PlainStoreRetrieve ==
    GotSecret("plain") =>
        \A e \in {hist[lastOp.arg.item].first, hist[lastOp.arg.item].last} :
            e[2] = "plain" =>
                lastOp.status = "ok" /\ lastOp.result = PlainSecret(e[1])

\* C5: GetSecret over a plain session returns, with empty parameters and the
\* content type text/plain; charset=utf8, the payload of the CreateItem that
\* last succeeded on the item over a plain session, as long as no SetSecret,
\* Delete or replacing CreateItem on that item intervened.
PlainStoreRetrieveLatest ==
    (GotSecret("plain") /\ hist[lastOp.arg.item].last[2] = "plain") =>
        /\ lastOp.status = "ok"
        /\ lastOp.result = PlainSecret(hist[lastOp.arg.item].last[1])

\* a plain GetSecret on an item that a replacing CreateItem gave another payload
PlainStoreRetrieveLatestWitness ==
    /\ GotSecret("plain")
    /\ lastOp.status = "ok"
    /\ hist[lastOp.arg.item].last[2] = "plain"
    /\ hist[lastOp.arg.item].first[1] # hist[lastOp.arg.item].last[1]
    /\ lastOp.result.Value = Plain(hist[lastOp.arg.item].last[1])

\* C9: after Collection.Delete on c succeeded, c is absent from the store, no
\* search returns an item of c, no alias maps to c, and a vault delete was
\* issued for the target of every item c held.
DeleteCascade ==
    (lastOp.op = "Collection.Delete" /\ lastOp.status = "ok") =>
        LET c == lastOp.arg.collection
        IN /\ ~GetCollection(data, c)
           /\ \A q \in SearchAttrMaps : \A ref \in SearchItems(data, q) : ref[1] # c
           /\ \A a \in AliasNames : GetAlias(data, a) # c
           /\ \A u \in lastOp.arg.items : <<c, u>> \in lastOp.result
           /\ \A u \in lastOp.arg.items : <<c, u>> \notin DOMAIN vault

\* a Collection.Delete that succeeded on a collection that held an item, was
\* targeted by an alias and is not login
DeleteCascadeWitness ==
    /\ lastOp.op = "Collection.Delete"
    /\ lastOp.status = "ok"
    /\ lastOp.arg.collection # login
    /\ lastOp.arg.items # {}
    /\ lastOp.arg.aliases # {}

\* C10: the alias path of a is exported if and only if alias a exists in the
\* store, and it is bound to the collection a maps to.
AliasExportConsistency ==
    \A a \in AliasNames :
        /\ a \in DOMAIN exports.alias <=> a \in DOMAIN data.Aliases
        /\ a \in DOMAIN data.Aliases => exports.alias[a] = data.Aliases[a]

\* the methods that take a session path
SessionMethods == {"GetSecret", "SetSecret", "CreateItem", "GetSecrets"}

\* C11: Item.GetSecret, Item.SetSecret, Collection.CreateItem and
\* Service.GetSecrets called with a session that is not in the registry (never
\* opened, or closed) return NoSession and change neither the metadata store
\* and its file, nor the vault, nor the exported objects.
UnregisteredSessionRejected ==
    [][(/\ lastOp'.op \in SessionMethods
        /\ sessions[lastOp'.arg.session] \notin SessionAlgorithms)
       => /\ lastOp'.status = "NoSession"
          /\ UNCHANGED <<data, disk, vault, exports, sessions>>]_vars

\* SetSecret over a session that Session.Close closed, on an item that holds
\* a secret, was rejected
UnregisteredSessionRejectedWitness ==
    /\ lastOp.op = "SetSecret"
    /\ lastOp.status = "NoSession"
    /\ sessions[lastOp.arg.session] = "closed"
    /\ lastOp.arg.item \in DOMAIN vault
    /\ \E id \in SessionIDs : Registered(id)

\* C12: a signal (CollectionCreated, CollectionDeleted, ItemCreated,
\* ItemDeleted, ItemChanged, properties-changed) is emitted only by a call
\* whose store write took place and succeeded.
SignalsFollowPersistence == emitted # {} => wrote = "ok"

\* C14: in Item.Delete and Collection.Delete a vault delete that fails with
\* NotFound is ignored, and every other failure of a vault delete makes the
\* method return an error.
VaultFailurePolicy ==
    lastOp.op \in {"Item.Delete", "Collection.Delete"} =>
        /\ (lastOp.arg.vaultErrs \subseteq {"nil", "NotFound"} /\ wrote = "ok")
              => lastOp.status = "ok"
        /\ lastOp.arg.vaultErrs \cap {"transport", "refused"} # {}
              => lastOp.status # "ok"

\* C15: a Collection.CreateItem that succeeded reused the uuid of an existing
\* item only with replace=true and only if that item's attributes were the
\* supplied ones, and then the number of items is unchanged; otherwise it
\* made an item under a uuid the collection did not hold; either way every
\* other item and its secret are untouched.
ReplaceSemantics ==
    [][(lastOp'.op = "CreateItem" /\ lastOp'.status = "ok") =>
          \A t \in lastOp'.result :
              /\ GetItemOk(data, t[1], t[2]) =>
                    /\ lastOp'.arg.replace
                    /\ GetItem(data, t[1], t[2]).Attributes = lastOp'.arg.attrs
                    /\ ListItems(data', t[1]) = ListItems(data, t[1])
              /\ ~GetItemOk(data, t[1], t[2]) =>
                    ListItems(data', t[1]) = ListItems(data, t[1]) \cup {t[2]}
              /\ \A u \in ListItems(data, t[1]) \ {t[2]} :
                    /\ GetItem(data', t[1], u) = GetItem(data, t[1], u)
                    /\ MapGet(vault', <<t[1], u>>, NoSecret)
                          = MapGet(vault, <<t[1], u>>, NoSecret)]_vars

\* path is the path of a collection that d holds
NamesCollection(d, path) == \E c \in DOMAIN d.Collections : path = CollectionPath(c)

\* C17: Service.SetAlias(n, p) with p neither "/" nor "" and not the path of
\* a collection of the store returns InvalidArgs and leaves the alias map and
\* the exported alias paths unchanged.
SetAliasRejection ==
    [][(/\ lastOp'.op = "SetAlias"
        /\ lastOp'.arg.collection \notin {RootPath, <<>>}
        /\ ~NamesCollection(data, lastOp'.arg.collection))
       => /\ lastOp'.status = "InvalidArgs"
          /\ data'.Aliases = data.Aliases
          /\ exports'.alias = exports.alias]_vars

\* C18: after SetAlias(n, CollectionPath(c)) succeeded for a collection c of
\* the store, ReadAlias(n) returns CollectionPath(c); after SetAlias(n, "/")
\* or SetAlias(n, "") it returns "/"; and ReadAlias of an alias no call set
\* returns "/".
AliasRoundTrip ==
    /\ (lastOp.op = "SetAlias" /\ lastOp.status = "ok") =>
          /\ NamesCollection(data, lastOp.arg.collection)
                => ReadAlias(data, lastOp.arg.name) = lastOp.arg.collection
          /\ lastOp.arg.collection \in {RootPath, <<>>}
                => ReadAlias(data, lastOp.arg.name) = RootPath
    /\ \A n \in UnsetAliasNames : ReadAlias(data, n) = RootPath
    /\ (lastOp.op = "ReadAlias" /\ lastOp.arg.name \in UnsetAliasNames)
          => lastOp.result = RootPath

\* SetAlias pointed primary at a collection that CreateCollection made, while
\* default names login
AliasRoundTripWitness ==
    /\ lastOp.op = "SetAlias"
    /\ lastOp.status = "ok"
    /\ lastOp.arg.name = "primary"
    /\ lastOp.arg.collection = CollectionPath(<<"w">>)
    /\ GetAlias(committed, "primary") = <<"w">>
    /\ GetAlias(data, "default") = login

(***************************************************************************)
(* Supervisor.                                                             *)
(***************************************************************************)

\* main's cancel: cancelling ctx also cancels every context derived from it
cancel(c) == [parent |-> TRUE, child |-> TRUE]

\* Service.shutdownFn: the cancel function of ctxWithCancel, the context New
\* derives from main's ctx; cancelling a derived context leaves its parent alone
shutdownFn(c) == [c EXCEPT !.child = TRUE]

\* the state New leaves behind: activity recorded, monitor started, main waiting
SupInit ==
    /\ now = 1
    /\ lastActivityTimestamp = 1
    /\ ctx = [parent |-> FALSE, child |-> FALSE]
    /\ monPc = "head"
    /\ monLast = 1
    /\ monWake = 1
    /\ mainPc = "wait"
    /\ sigChan = FALSE
    /\ alive = TRUE
    /\ data = EmptyData
    /\ disk = [main |-> NoFile, tmp |-> NoFile]
    /\ committed = EmptyData
    /\ faults = 0
    /\ lastOp = NoOp
    /\ svcIdle

\* the wall clock advances
Tick ==
    /\ now < MaxTime
    /\ now' = now + 1
    /\ UNCHANGED <<lastActivityTimestamp, ctx, monPc, monLast, monWake, mainPc, sigChan, storeVars, svcVars>>

\* Service.recordActivity, at the entry of a client method
recordActivity ==
    /\ mainPc # "exited"
    /\ lastActivityTimestamp' = now
    /\ UNCHANGED <<now, ctx, monPc, monLast, monWake, mainPc, sigChan, storeVars, svcVars>>

\* the head of the monitor loop: return when ctx is done, else load the timestamp
MonitorLoad ==
    /\ mainPc # "exited"
    /\ monPc = "head"
    /\ IF ctx.child
          THEN monPc' = "stopped" /\ monLast' = monLast
          ELSE monPc' = "loaded" /\ monLast' = lastActivityTimestamp
    /\ UNCHANGED <<now, lastActivityTimestamp, ctx, monWake, mainPc, sigChan, storeVars, svcVars>>

\* the deadline test: shut down, or arm the timer for the deadline
MonitorCheck ==
    /\ mainPc # "exited"
    /\ monPc = "loaded"
    /\ IF now >= monLast + timeoutDuration
          THEN /\ ctx' = shutdownFn(ctx)
               /\ monPc' = "shutdown"
               /\ monWake' = monWake
          ELSE /\ ctx' = ctx
               /\ monPc' = "sleep"
               /\ monWake' = monLast + timeoutDuration
    /\ UNCHANGED <<now, lastActivityTimestamp, monLast, mainPc, sigChan, storeVars, svcVars>>

\* the select of the sleep: ctx.Done() returns, the timer loops
MonitorWake ==
    /\ mainPc # "exited"
    /\ monPc = "sleep"
    /\ \/ ctx.child /\ monPc' = "stopped"
       \/ now >= monWake /\ monPc' = "head"
    /\ UNCHANGED <<now, lastActivityTimestamp, ctx, monLast, monWake, mainPc, sigChan, storeVars, svcVars>>

\* the operating system delivers SIGTERM or SIGINT
Signal ==
    /\ mainPc = "wait"
    /\ ~sigChan
    /\ sigChan' = TRUE
    /\ UNCHANGED <<now, lastActivityTimestamp, ctx, monPc, monLast, monWake, mainPc, storeVars, svcVars>>

\* main's select: ctx.Done(), or a signal, on which main cancels ctx; main
\* then runs to the end of its body
MainWait ==
    /\ mainPc = "wait"
    /\ ctx' \in {c \in {ctx, cancel(ctx)} :
                    \/ ctx.parent /\ c = ctx
                    \/ sigChan /\ c = cancel(ctx)}
    /\ mainPc' = "return"
    /\ UNCHANGED <<now, lastActivityTimestamp, monPc, monLast, monWake, sigChan, storeVars, svcVars>>

\* main returns: the deferred cancel runs and the process exits, whatever
\* its goroutines are at
MainReturn ==
    /\ mainPc = "return"
    /\ ctx' = cancel(ctx)
    /\ mainPc' = "exited"
    /\ UNCHANGED <<now, lastActivityTimestamp, monPc, monLast, monWake, sigChan, storeVars, svcVars>>

Monitor == MonitorLoad \/ MonitorCheck \/ MonitorWake

SupNext == Tick \/ recordActivity \/ MonitorLoad \/ MonitorCheck \/ MonitorWake
              \/ Signal \/ MainWait \/ MainReturn

SupSpec == SupInit /\ [][SupNext]_vars

\* the goroutines and the clock are scheduled fairly; clients and signals are not
FairSupSpec ==
    SupSpec /\ WF_vars(Monitor) /\ WF_vars(MainWait) /\ WF_vars(MainReturn) /\ WF_vars(Tick)

\* C1: once the idle monitor has triggered shutdown, main's wait loop
\* eventually returns and the process exits.
IdleShutdownExits == (monPc = "shutdown") ~> (mainPc = "exited")

(***************************************************************************)
(* ActivitySpec: the methods of the items of login called while the wall   *)
(* clock advances.                                                         *)
(***************************************************************************)
ActivityNext ==
    \/ Tick
    \/ \E a \in SessionAlgorithms : ServiceOpenSession(a, SessionInput(a))
    \/ ServiceReadAlias("default")
    \/ ServiceSearchItems(TagV)
    \/ CollectionSearchItems(login, TagV)
    \/ \E s \in SessionIDs :
          CollectionCreateItem(login, s, TagV, "p", FALSE, "iv1", "ok")
    \/ \E i \in exports.item, s \in SessionIDs : ItemGetSecret(i, s, "iv1", "ok")
    \/ \E i \in exports.item, s \in SessionIDs :
          ItemSetSecret(i, s, "q", OctetStream, "iv1", "ok")
    \/ \E i \in exports.item : ItemSetProperty(i, "Label", <<"J">>, "ok")
    \/ \E i \in exports.item : ItemDelete(i, "ok", "ok")
    \/ CollectionDelete(login, "ok", "ok")

ActivitySpec == ServiceInit /\ [][ActivityNext]_vars

\* the methods of section 4.G, by the names lastOp gives them
ListedMethods ==
    {"OpenSession", "CreateCollection", "Service.SearchItems", "GetSecrets",
     "ReadAlias", "SetAlias", "Collection.SearchItems", "CreateItem",
     "Collection.Delete", "GetSecret", "SetSecret", "Item.Delete"}

\* C13: every call of a listed method stores the current time into the
\* last-activity timestamp.
RecordsActivity ==
    [][(lastOp'.op \in ListedMethods /\ now' = now)
       => lastActivityTimestamp' = now]_vars

\* C16: after Item.SetSecret returned success, the vault entry of the item is
\* the decrypted payload, the item's content type is the one of the incoming
\* Secret, its modified time is the current time, and its label, attributes
\* and created time are what they were.
SetSecretEffect ==
    [][(lastOp'.op = "SetSecret" /\ lastOp'.status = "ok" /\ now' = now) =>
          LET i == lastOp'.arg.item
          IN /\ i \in DOMAIN vault'
             /\ vault'[i] = Plain(lastOp'.arg.payload)
             /\ GetItemOk(data, i[1], i[2])
             /\ GetItemOk(data', i[1], i[2])
             /\ GetItem(data', i[1], i[2]).ContentType = lastOp'.arg.ContentType
             /\ GetItem(data', i[1], i[2]).Modified = now
             /\ GetItem(data', i[1], i[2]).Label = GetItem(data, i[1], i[2]).Label
             /\ GetItem(data', i[1], i[2]).Attributes
                   = GetItem(data, i[1], i[2]).Attributes
             /\ GetItem(data', i[1], i[2]).Created
                   = GetItem(data, i[1], i[2]).Created]_vars

(***************************************************************************)
(* ModifiedSpec: the store's operations on items and collections called    *)
(* while the wall clock advances.                                          *)
(***************************************************************************)
ModifiedNext ==
    \/ Tick
    \/ \E n \in Names, l \in Labels : StCreateCollection(n, l, "ok")
    \/ \E l \in Labels : StUpdateCollectionLabel(login, l, "ok")
    \/ \E n \in Names : StDeleteCollection(n, "ok")
    \/ \E u \in UUIDs :
          StCreateItem(login, u, ItemMetaOf(<<"I">>, <<>>, DefaultContentType), "ok")
    \/ \E n \in Names, u \in UUIDs :
          StUpdateItem(n, u, ItemMetaOf(<<"J">>, <<>>, DefaultContentType), "ok")
    \/ \E u \in UUIDs : StDeleteItem(login, u, "ok")

ModifiedSpec == StoreInit /\ [][ModifiedNext]_vars

\* the items of collection c of d, none when d holds no c
ItemsOf(d, c) == IF c \in DOMAIN d.Collections THEN d.Collections[c].Items ELSE <<>>

\* C24: a store CreateItem, UpdateItem or DeleteItem that succeeded set the
\* modified time of the item it wrote and of the item's collection to the
\* current time, and a collection's modified time is never below the
\* modified time of one of its items.
ModifiedPropagation ==
    [][/\ (/\ lastOp'.op \in {"CreateItem", "UpdateItem", "DeleteItem"}
           /\ lastOp'.status = "ok"
           /\ now' = now) =>
             /\ \E c \in DOMAIN data'.Collections :
                   /\ data'.Collections[c].Modified = now
                   /\ lastOp'.op = "DeleteItem" =>
                         \E u \in DOMAIN ItemsOf(data, c) : u \notin DOMAIN ItemsOf(data', c)
                   /\ lastOp'.op # "DeleteItem" =>
                         \E u \in DOMAIN ItemsOf(data', c) :
                             ItemsOf(data', c)[u].Modified = now
             /\ \A c \in DOMAIN data'.Collections : \A u \in DOMAIN ItemsOf(data', c) :
                   (u \notin DOMAIN ItemsOf(data, c)
                       \/ ItemsOf(data', c)[u] # ItemsOf(data, c)[u])
                   => /\ ItemsOf(data', c)[u].Modified = now
                      /\ data'.Collections[c].Modified = now
       /\ \A c \in DOMAIN data'.Collections : \A u \in DOMAIN ItemsOf(data', c) :
             data'.Collections[c].Modified >= ItemsOf(data', c)[u].Modified]_vars

\* an UpdateItem that succeeded after the clock had advanced twice since the
\* collection was created: the item and its collection carry the time of the
\* update
ModifiedPropagationWitness ==
    /\ lastOp.op = "UpdateItem"
    /\ lastOp.status = "ok"
    /\ \E c \in DOMAIN data.Collections : \E u \in DOMAIN ItemsOf(data, c) :
          /\ ItemsOf(data, c)[u].Modified = now
          /\ data.Collections[c].Created + 2 <= now
          /\ data.Collections[c].Modified = now

(***************************************************************************)
(* CryptoSpec: crypto.go on strings of bytes.  A byte is a number in       *)
(* 0..255, a byte string a sequence of bytes.                              *)
(***************************************************************************)
\* the longest plaintext, in bytes
MaxPlain == 17
\* aes.BlockSize
BlockSize == 16

\* n bytes b
Fill(n, b) == [i \in 1..n |-> b]

\* pkcs7Pad that adds nothing to data that fills its last block
pkcs7Pad_noFullBlock(src, blockSize) ==
    LET padding == (blockSize - (Len(src) % blockSize)) % blockSize
    IN  src \o Fill(padding, padding)

\* pkcs7Pad
pkcs7Pad(src, blockSize) ==
    LET padding == blockSize - (Len(src) % blockSize)
    IN  src \o Fill(padding, padding)

\* pkcs7Unpad: [err, bytes]
pkcs7Unpad(bytes) ==
    IF Len(bytes) = 0 THEN [err |-> TRUE, bytes |-> <<>>]
    ELSE LET padding == bytes[Len(bytes)]
         IN  IF padding = 0 \/ padding > BlockSize \/ padding > Len(bytes)
                THEN [err |-> TRUE, bytes |-> <<>>]
             ELSE IF \E i \in (Len(bytes) - padding + 1)..Len(bytes) : bytes[i] # padding
                THEN [err |-> TRUE, bytes |-> <<>>]
             ELSE [err |-> FALSE, bytes |-> SubSeq(bytes, 1, Len(bytes) - padding)]

\* the exclusive or of two bytes, bit by bit
RECURSIVE XorBits(_, _, _)
XorBits(a, b, bits) ==
    IF bits = 0 THEN 0
    ELSE ((a + b) % 2) + 2 * XorBits(a \div 2, b \div 2, bits - 1)

Xor(a, b) == XorBits(a, b, 8)

XorBlock(x, y) == [i \in 1..BlockSize |-> Xor(x[i], y[i])]

\* cipher.Block of aes.NewCipher(key): a permutation of the 16-byte blocks
\* that the key selects, and its inverse
BlockEncrypt(key, block) == [i \in 1..BlockSize |-> (block[i] + key[i]) % 256]
BlockDecrypt(key, block) == [i \in 1..BlockSize |-> (block[i] + 256 - key[i]) % 256]

\* block k of a byte string
BlockAt(bytes, k) == SubSeq(bytes, (k - 1) * BlockSize + 1, k * BlockSize)

\* cipher.NewCBCEncrypter(block, iv).CryptBlocks over the first k blocks of src
RECURSIVE CBCEncrypt(_, _, _, _)
CBCEncrypt(key, iv, src, k) ==
    IF k = 0 THEN <<>>
    ELSE LET before == CBCEncrypt(key, iv, src, k - 1)
             chain == IF k = 1 THEN iv ELSE BlockAt(before, k - 1)
         IN  before \o BlockEncrypt(key, XorBlock(BlockAt(src, k), chain))

\* cipher.NewCBCDecrypter(block, iv).CryptBlocks over the first k blocks of src
RECURSIVE CBCDecrypt(_, _, _, _)
CBCDecrypt(key, iv, src, k) ==
    IF k = 0 THEN <<>>
    ELSE LET chain == IF k = 1 THEN iv ELSE BlockAt(src, k - 1)
         IN  CBCDecrypt(key, iv, src, k - 1)
                \o XorBlock(BlockDecrypt(key, BlockAt(src, k)), chain)

\* aes.NewCipher accepts keys of 16, 24 and 32 bytes
KeySizeOk(key) == Len(key) \in {16, 24, 32}

\* aesEncrypt on bytes, under the iv that rand.Read drew: [err, iv, ciphertext]
aesEncryptBytes(key, iv, plaintext) ==
    IF ~KeySizeOk(key) THEN [err |-> TRUE, iv |-> <<>>, ciphertext |-> <<>>]
    ELSE LET padded == pkcs7Pad(plaintext, BlockSize)
         IN  [err |-> FALSE, iv |-> iv,
              ciphertext |-> CBCEncrypt(key, iv, padded, Len(padded) \div BlockSize)]

\* aesDecrypt on bytes: [err, bytes]
aesDecryptBytes(key, iv, ciphertext) ==
    IF Len(ciphertext) = 0 \/ Len(ciphertext) % BlockSize # 0
       THEN [err |-> TRUE, bytes |-> <<>>]
    ELSE IF ~KeySizeOk(key) THEN [err |-> TRUE, bytes |-> <<>>]
    ELSE pkcs7Unpad(CBCDecrypt(key, iv, ciphertext, Len(ciphertext) \div BlockSize))

\* the byte strings the functions are applied to: up to MaxPlain bytes, all
\* of one value; 1 and 16 are paddings themselves
FillBytes == {0, 1, 16, 255}
Plaintexts == {Fill(n, b) : n \in 0..MaxPlain, b \in FillBytes}
\* those that end at, one byte behind or one byte before a block boundary
BoundaryPlaintexts == {p \in Plaintexts : Len(p) % BlockSize \in {0, 1, BlockSize - 1}}
\* session keys as deriveKey returns them: 16 bytes
SessionKeys == {Fill(BlockSize, 3), [i \in 1..BlockSize |-> (17 * i) % 256]}
\* the ivs rand.Read draws
RandomIVs == {Fill(BlockSize, 0), [i \in 1..BlockSize |-> 255 - i]}

CryptoInit == BridgeInit

\* pkcs7Pad of data at the AES block size, and pkcs7Unpad of what it returned
PadCall(bytes) ==
    /\ lastOp' = Op("pkcs7Pad", "ok", [data |-> bytes],
                    [padded |-> pkcs7Pad(bytes, BlockSize),
                     unpadded |-> pkcs7Unpad(pkcs7Pad(bytes, BlockSize))])
    /\ UNCHANGED <<supVars, alive, data, disk, committed, faults, svcVars>>

\* aesEncrypt of a plaintext, and aesDecrypt of what it returned under the key
EncryptCall(key, iv, plaintext) ==
    LET e == aesEncryptBytes(key, iv, plaintext)
    IN  /\ lastOp' = Op("aesEncrypt", IF e.err THEN "error" ELSE "ok",
                        [key |-> key, plaintext |-> plaintext],
                        [iv |-> e.iv, ciphertext |-> e.ciphertext,
                         decrypted |-> aesDecryptBytes(key, e.iv, e.ciphertext)])
        /\ UNCHANGED <<supVars, alive, data, disk, committed, faults, svcVars>>

CryptoNext ==
    \/ \E bytes \in Plaintexts : PadCall(bytes)
    \/ \E key \in SessionKeys, iv \in RandomIVs, plaintext \in BoundaryPlaintexts :
          EncryptCall(key, iv, plaintext)

CryptoSpec == CryptoInit /\ [][CryptoNext]_vars

\* C29: pkcs7Unpad of pkcs7Pad(S, 16) is S, the padded length is a positive
\* multiple of 16 above the length of S, and aesDecrypt under the key of the
\* encryption returns the plaintext that aesEncrypt was given.
CryptoRoundTrip ==
    /\ lastOp.op = "pkcs7Pad" =>
          /\ lastOp.result.unpadded = [err |-> FALSE, bytes |-> lastOp.arg.data]
          /\ Len(lastOp.result.padded) > 0
          /\ Len(lastOp.result.padded) % 16 = 0
          /\ Len(lastOp.result.padded) > Len(lastOp.arg.data)
    /\ lastOp.op = "aesEncrypt" =>
          /\ lastOp.status = "ok"
          /\ Len(lastOp.result.iv) = 16
          /\ lastOp.result.decrypted = [err |-> FALSE, bytes |-> lastOp.arg.plaintext]

\* a plaintext of one full block that ends in a valid padding of its own,
\* encrypted to two blocks that are not the padded plaintext, and decrypted
CryptoRoundTripWitness ==
    /\ lastOp.op = "aesEncrypt"
    /\ lastOp.arg.plaintext = Fill(16, 16)
    /\ Len(lastOp.result.ciphertext) = 32
    /\ lastOp.result.ciphertext # pkcs7Pad(lastOp.arg.plaintext, 16)
    /\ lastOp.result.decrypted.bytes = lastOp.arg.plaintext

(***************************************************************************)
(* RaceSpec: Item.GetSecret and Service.GetSecrets running step by step    *)
(* beside a Session.Close.  The bus library runs every method call in a    *)
(* goroutine of its own; the registry has a lock, Session.aesKey has none. *)
(* threads.get is the GetSecret(s) call in flight with its locals,         *)
(* threads.close the Close call in flight with the memory of the key it    *)
(* wipes.                                                                  *)
(***************************************************************************)
\* what a read of s.aesKey finds: the key of a DH session, "torn" midway
\* through clear(s.aesKey), "zero" after it, "nil" after s.aesKey = nil and
\* for a plain session
KeyMem(s) ==
    IF threads.close.pc # "none" /\ threads.close.session = s THEN threads.close.mem
    ELSE aesKey(s)

\* the steps of the calls in flight write no file, draw no fault and emit nothing
RaceFrame ==
    /\ NoWrite
    /\ Faults(<<>>)
    /\ Emit({}, "none")
    /\ UNCHANGED <<vault, collections, nextUUID, hist>>

\* the Secret of the item the call is at, for what encryptSecret returned
SecretFor(g, e) ==
    [Session |-> g.arg.session, Parameters |-> e.params, Value |-> e.value,
     ContentType |-> g.ct]

\* the content type GetSecret and GetSecrets give an item
ContentTypeOf(meta) ==
    IF meta.ContentType = "" THEN DefaultContentType ELSE meta.ContentType

\* the paths of todo for which the loop of GetSecrets reaches encryptSecret
Readable(todo) ==
    {x \in todo : /\ NamesItem(data, x)
                  /\ BridgeGet(vault, <<ItemUUIDFromPath(x).collection,
                                        UUIDOf(ItemUUIDFromPath(x).uuid)>>, "ok").err = "nil"}

\* the loop of GetSecrets moves to the next path it encrypts for, or returns
\* the result when none is left
GetSecretsLoop(g) ==
    IF Readable(g.todo) = {}
       THEN /\ lastOp' = Op("GetSecrets", "ok", g.arg, g.result)
            /\ threads' = [threads EXCEPT !.get = NoCall]
    ELSE \E x \in Readable(g.todo) :
            LET t == <<ItemUUIDFromPath(x).collection, UUIDOf(ItemUUIDFromPath(x).uuid)>>
            IN /\ threads' = [threads EXCEPT !.get =
                                 [g EXCEPT !.pc = "check", !.todo = @ \ {x}, !.cur = x,
                                           !.bytes = BridgeGet(vault, t, "ok").bytes,
                                           !.ct = ContentTypeOf(GetItem(data, t[1], t[2]))]]
               /\ UNCHANGED lastOp

\* Item.GetSecret up to the call of encryptSecret: the session taken from the
\* registry, the item's metadata and the vault entry read
GetSecretBegin(i, s) ==
    /\ alive
    /\ i \in exports.item
    /\ threads.get.pc = "none"
    /\ Activity
    /\ RaceFrame
    /\ UNCHANGED <<sessions, exports>>
    /\ LET r == BridgeGet(vault, i, "ok")
           arg == [item |-> i, session |-> s, algorithm |-> sessions[s]]
       IN IF ~Registered(s)
             THEN /\ lastOp' = Op("GetSecret", "NoSession", arg, NoSecret)
                  /\ UNCHANGED threads
          ELSE IF ~GetItemOk(data, i[1], i[2])
             THEN /\ lastOp' = Op("GetSecret", "NoSuchObject", arg, NoSecret)
                  /\ UNCHANGED threads
          ELSE IF r.err # "nil"
             THEN /\ lastOp' = Op("GetSecret", "IsLocked", arg, NoSecret)
                  /\ UNCHANGED threads
          ELSE /\ threads' = [threads EXCEPT !.get =
                                 [pc |-> "check", method |-> "GetSecret", arg |-> arg,
                                  todo |-> {}, cur |-> i, bytes |-> r.bytes,
                                  ct |-> ContentTypeOf(GetItem(data, i[1], i[2])),
                                  result |-> <<>>]]
               /\ UNCHANGED lastOp

\* Service.GetSecrets up to the first call of encryptSecret
GetSecretsBegin(items, s) ==
    /\ alive
    /\ threads.get.pc = "none"
    /\ Activity
    /\ RaceFrame
    /\ UNCHANGED <<sessions, exports>>
    /\ LET arg == [items |-> items, session |-> s, algorithm |-> sessions[s]]
       IN IF ~Registered(s)
             THEN /\ lastOp' = Op("GetSecrets", "NoSession", arg, <<>>)
                  /\ UNCHANGED threads
          ELSE GetSecretsLoop([pc |-> "loop", method |-> "GetSecrets", arg |-> arg,
                               todo |-> items, cur |-> <<>>, bytes |-> Plain(""),
                               ct |-> "", result |-> <<>>])

\* the call returns the Secret of the item it is at (GetSecret), or puts it
\* into the result and goes on with the loop (GetSecrets)
Deliver(g, e) ==
    IF g.method = "GetSecret"
       THEN /\ lastOp' = Op("GetSecret", "ok", g.arg, SecretFor(g, e))
            /\ threads' = [threads EXCEPT !.get = NoCall]
    ELSE GetSecretsLoop([g EXCEPT !.result = MapPut(@, g.cur, SecretFor(g, e))])

\* encryptSecret, the test s.aesKey == nil
EncryptCheck ==
    /\ alive
    /\ threads.get.pc = "check"
    /\ RaceFrame
    /\ UNCHANGED <<supVars, sessions, exports>>
    /\ IF KeyMem(threads.get.arg.session) = "nil"
          THEN Deliver(threads.get, [params |-> "", value |-> threads.get.bytes])
       ELSE /\ threads' = [threads EXCEPT !.get.pc = "cipher"]
            /\ UNCHANGED lastOp

\* encryptSecret, aesEncrypt(s.aesKey, plaintext) under the iv that rand.Read
\* drew: aes.NewCipher refuses a nil key, GetSecret then answers Failed and
\* GetSecrets leaves the item out
EncryptCipher(iv) ==
    /\ alive
    /\ threads.get.pc = "cipher"
    /\ RaceFrame
    /\ UNCHANGED <<supVars, sessions, exports>>
    /\ LET g == threads.get
           key == KeyMem(g.arg.session)
       IN IF key # "nil"
             THEN Deliver(g, [params |-> iv, value |-> aesEncrypt(key, iv, g.bytes)])
          ELSE IF g.method = "GetSecret"
             THEN /\ lastOp' = Op("GetSecret", "Failed", g.arg, NoSecret)
                  /\ threads' = [threads EXCEPT !.get = NoCall]
          ELSE GetSecretsLoop(g)

\* Session.Close up to secret.Do: the session leaves the registry and the bus
CloseRemove(id) ==
    /\ alive
    /\ id \in exports.session
    /\ threads.close.pc = "none"
    /\ Activity
    /\ RaceFrame
    /\ threads' = [threads EXCEPT !.close =
                      [pc |-> "wipe", session |-> id, mem |-> aesKey(id)]]
    /\ sessions' = [sessions EXCEPT ![id] = "closed"]
    /\ exports' = [exports EXCEPT !.session = @ \ {id}]
    /\ UNCHANGED lastOp

\* Session.Close, clear(s.aesKey): the key's bytes are zeroed in two stores
CloseClear ==
    /\ alive
    /\ threads.close.pc = "wipe"
    /\ threads.close.mem \notin {"zero", "nil"}
    /\ RaceFrame
    /\ threads' = [threads EXCEPT !.close.mem = IF @ = "torn" THEN "zero" ELSE "torn"]
    /\ UNCHANGED <<supVars, sessions, exports, lastOp>>

\* Session.Close, s.aesKey = nil and the return
CloseNil ==
    /\ alive
    /\ threads.close.pc = "wipe"
    /\ threads.close.mem \in {"zero", "nil"}
    /\ RaceFrame
    /\ threads' = [threads EXCEPT !.close = NoCall]
    /\ lastOp' = Op("Close", "ok", <<>>, {})
    /\ UNCHANGED <<supVars, sessions, exports>>

\* the paths GetSecrets is given in RaceSpec
RacePaths == {ItemPath(login, UUIDString(u)) : u \in 1..MaxItems} \cup {CollectionPath(login)}

RaceNext ==
    \/ \E a \in SessionAlgorithms : ServiceOpenSession(a, SessionInput(a))
    \/ \E s \in SessionIDs, p \in Payloads :
          CollectionCreateItem(login, s, TagV, p, FALSE, "iv1", "ok")
    \/ \E i \in exports.item, s \in SessionIDs : GetSecretBegin(i, s)
    \/ \E items \in SUBSET RacePaths, s \in SessionIDs : GetSecretsBegin(items, s)
    \/ EncryptCheck
    \/ EncryptCipher("iv2")
    \/ \E id \in SessionIDs : CloseRemove(id)
    \/ CloseClear
    \/ CloseNil

RaceSpec == ServiceInit /\ [][RaceNext]_vars

\* the bytes are a ciphertext under the key of session s and iv: the
\* outermost layer is the one of s and iv
EncryptedFor(secret, s) ==
    /\ secret.Parameters \in IVs
    /\ secret.Value.layers # <<>>
    /\ secret.Value.layers[Len(secret.Value.layers)] = <<s, secret.Parameters>>

\* C30: every Secret that GetSecret or GetSecrets returns for a session that
\* was opened with the DH algorithm is ciphertext under the key derived for
\* that session, with a 16-byte iv as its parameters, whatever a Close of
\* the session does meanwhile.
DHSecrecyUnderClose ==
    /\ (/\ lastOp.op = "GetSecret"
        /\ lastOp.status = "ok"
        /\ lastOp.arg.algorithm = DHAlgorithm) =>
          EncryptedFor(lastOp.result, lastOp.arg.session)
    /\ (/\ lastOp.op = "GetSecrets"
        /\ lastOp.status = "ok"
        /\ lastOp.arg.algorithm = DHAlgorithm) =>
          \A x \in DOMAIN lastOp.result :
              EncryptedFor(lastOp.result[x], lastOp.arg.session)

(***************************************************************************)
(* Claims about the vault and the store, over CollectionSpec.              *)
(***************************************************************************)
\* the vault targets of the items the store holds
StoreTargets(d) ==
    UNION {{<<c, u>> : u \in DOMAIN d.Collections[c].Items} : c \in DOMAIN d.Collections}

\* C35: with the methods called one at a time and no failure of the vault or
\* of a save, after every call the targets the vault holds are the targets
\* of the items the store holds, on whichever bus path the call arrived.
VaultMetadataAgree == DOMAIN vault = StoreTargets(data)


\* C40: whenever no method is in progress, the Collections property of the
\* Service object lists the collections of the store, and the Items property
\* of every exported collection lists the items the store holds for it.
PropertyCachesTrack ==
    /\ exports.svcCollections = ListCollections(data)
    /\ \A c \in exports.collection :
          /\ c \in DOMAIN exports.colItems
          /\ exports.colItems[c] = ListItems(data, c)


(***************************************************************************)
(* Further claims about the supervisor, over SupSpec.                      *)
(***************************************************************************)
\* C33: the idle monitor triggers shutdown only when no activity was recorded
\* during the preceding timeout: at the step that triggers it, the clock is
\* at least the timeout past the last recorded activity, so that a call
\* recorded before or during the monitor's check, or while it slept, moves
\* the deadline to the call's time plus the timeout.
IdleMonitorSafety ==
    [][(monPc # "shutdown" /\ monPc' = "shutdown")
          => now - lastActivityTimestamp >= timeoutDuration]_vars


\* C37: once SIGTERM or SIGINT is delivered, main's context is cancelled
\* and main leaves its wait and exits; from the cancellation on the idle
\* monitor does not trigger shutdown any more.
SignalDrivenShutdown ==
    /\ sigChan ~> (mainPc = "exited" /\ ctx.parent)
    /\ [][ctx.parent => ~(monPc # "shutdown" /\ monPc' = "shutdown")]_vars


(***************************************************************************)
(* Further claims about Session.Close, over RaceSpec.                      *)
(***************************************************************************)
\* C36: Session.Close overwrites the AES key of the session with zeros
\* before it removes the session from the registry: a session that the
\* registry does not hold has no key that is intact or half wiped.
KeyWipedBeforeRemoval ==
    \A id \in SessionIDs : ~Registered(id) => KeyMem(id) \in {"zero", "nil"}


(***************************************************************************)
(* LockSpec: two goroutines run method handlers, each handler reduced to   *)
(* the operations it performs on the store's RWMutex, on the session       *)
(* registry's Mutex, on the vault bridge and on the map svc.collections,   *)
(* in the order of the code.  threads.run[w] is the handler goroutine w    *)
(* runs and its position in it, threads.mu the state of the two locks.     *)
(***************************************************************************)
Prim(op, arg) == [op |-> op, arg |-> arg]

\* a store method that calls the bridge inside its critical section
StoreWrite_callsBridge ==
    <<Prim("Lock", "store"), Prim("call", "Set"), Prim("return", "Set"),
      Prim("Unlock", "store")>>

\* store.go, every writing method: s.mu.Lock(); defer s.mu.Unlock(); ...; save()
StoreWrite == <<Prim("Lock", "store"), Prim("Unlock", "store")>>

\* store.go, every reading method: s.mu.RLock(); defer s.mu.RUnlock()
StoreRead == <<Prim("RLock", "store"), Prim("RUnlock", "store")>>

\* sessionRegistry.add / remove / get: r.mu.Lock(); defer r.mu.Unlock()
RegistryCall == <<Prim("Lock", "sessions"), Prim("Unlock", "sessions")>>

\* backend.Get / Set / Delete: the call spawns the helper and waits for it
BackendCall(name) == <<Prim("call", name), Prim("return", name)>>

\* col, ok := svc.collections[name]
MapRead == <<Prim("map", "read")>>

\* svc.collections[name] = col and delete(svc.collections, name)
MapWrite == <<Prim("map", "write")>>

RECURSIVE Times(_, _)
Times(n, seq) == IF n = 0 THEN <<>> ELSE seq \o Times(n - 1, seq)

HandlerNames ==
    {"Service.OpenSession", "Session.Close", "Service.CreateCollection",
     "Service.SetAlias", "Service.GetSecrets", "Collection.Delete",
     "Collection.CreateItem", "Item.Delete", "Item.GetSecret", "Item.SetSecret"}

\* the object a method is invoked on
ObjectOf(method) ==
    CASE method \in {"Service.OpenSession", "Service.CreateCollection",
                     "Service.SetAlias", "Service.GetSecrets"} -> "service"
      [] method = "Session.Close" -> "session"
      [] method \in {"Collection.Delete", "Collection.CreateItem"} -> "collection"
      [] OTHER -> "item"

\* the operations of a handler on its successful path; n is the number of
\* items its loop runs over
Handler(method, n) ==
    CASE method = "Service.OpenSession" -> RegistryCall             \* sessions.add
      [] method = "Session.Close" -> RegistryCall                   \* sessions.remove
      [] method = "Service.CreateCollection" ->
             StoreRead                                              \* GetCollection (uniqueness loop)
             \o StoreWrite                                          \* CreateCollection
             \o StoreRead \o StoreRead                              \* exportCollection: ListItems, GetCollection
             \o MapWrite                                            \* svc.collections[name] = col
             \o StoreRead                                           \* updateCollectionsProp: ListCollections
      [] method = "Service.SetAlias" ->
             StoreWrite                                             \* SetAlias
             \o MapRead                                             \* exportCollectionAtAlias
      [] method = "Service.GetSecrets" ->
             RegistryCall                                           \* sessions.get
             \o Times(n, StoreRead \o BackendCall("Get"))            \* GetItem, backend.Get per item
      [] method = "Collection.Delete" ->
             StoreRead                                              \* ListItems
             \o Times(n, BackendCall("Delete"))                      \* backend.Delete per item
             \o StoreWrite                                          \* DeleteCollection
             \o MapWrite                                            \* delete(svc.collections, name)
             \o StoreRead                                           \* updateCollectionsProp: ListCollections
      [] method = "Collection.CreateItem" ->
             RegistryCall                                           \* sessions.get
             \o StoreRead                                           \* SearchItemsInCollection (replace)
             \o BackendCall("Set")                                   \* backend.Set
             \o StoreRead                                           \* GetItem
             \o StoreWrite                                          \* UpdateItem or CreateItem
             \o StoreRead                                           \* exportItem: GetItem
             \o MapRead                                             \* updateCollectionItemsProp
             \o StoreRead                                           \*   ListItems
      [] method = "Item.Delete" ->
             BackendCall("Delete")                                   \* backend.Delete
             \o StoreWrite                                          \* DeleteItem
             \o MapRead                                             \* notifyItemDeleted: updateCollectionItemsProp
             \o StoreRead                                           \*   ListItems
      [] method = "Item.GetSecret" ->
             RegistryCall                                           \* sessions.get
             \o StoreRead                                           \* GetItem
             \o BackendCall("Get")                                   \* backend.Get
      [] OTHER ->                                                   \* Item.SetSecret
             RegistryCall                                           \* sessions.get
             \o BackendCall("Set")                                   \* backend.Set
             \o StoreRead                                           \* GetItem
             \o StoreWrite                                          \* UpdateItem

Running(w) == threads.run[w].pc # 0
ProgramOf(w) == Handler(threads.run[w].method, threads.run[w].local)
\* the operation goroutine w performs next
NextPrim(w) == ProgramOf(w)[threads.run[w].pc]

\* goroutine w has called the bridge and the call has not returned
InBridge(w) ==
    /\ Running(w)
    /\ threads.run[w].pc > 1
    /\ ProgramOf(w)[threads.run[w].pc - 1].op = "call"

\* the locks goroutine w holds
Holds(w) ==
    (IF threads.mu.store.writer = w \/ w \in threads.mu.store.readers
     THEN {"store"} ELSE {})
    \cup (IF threads.mu.sessions = w THEN {"sessions"} ELSE {})

\* sync.RWMutex and sync.Mutex: the lock state after the operation, and
\* whether the operation can proceed
CanProceed(w, p) ==
    CASE p.op = "Lock" /\ p.arg = "store" ->
             threads.mu.store.writer = "none" /\ threads.mu.store.readers = {}
      [] p.op = "RLock" -> threads.mu.store.writer = "none"
      [] p.op = "Lock" /\ p.arg = "sessions" -> threads.mu.sessions = "none"
      [] OTHER -> TRUE

LocksAfter(w, p) ==
    CASE p.op = "Lock" /\ p.arg = "store" -> [threads.mu EXCEPT !.store.writer = w]
      [] p.op = "Unlock" /\ p.arg = "store" -> [threads.mu EXCEPT !.store.writer = "none"]
      [] p.op = "RLock" -> [threads.mu EXCEPT !.store.readers = @ \cup {w}]
      [] p.op = "RUnlock" -> [threads.mu EXCEPT !.store.readers = @ \ {w}]
      [] p.op = "Lock" /\ p.arg = "sessions" -> [threads.mu EXCEPT !.sessions = w]
      [] p.op = "Unlock" /\ p.arg = "sessions" -> [threads.mu EXCEPT !.sessions = "none"]
      [] OTHER -> threads.mu

LockFrame ==
    UNCHANGED <<supVars, storeVars, sessions, vault, collections, exports, nextUUID,
                emitted, wrote, hist>>

\* the bus library starts a goroutine for an incoming method call
Dispatch(w, method, n) ==
    /\ ~Running(w)
    /\ threads' = [threads EXCEPT !.run[w] = [pc |-> 1, method |-> method, local |-> n]]
    /\ LockFrame

\* goroutine w performs its next operation; after the last one the handler returns
HandlerStep(w) ==
    /\ Running(w)
    /\ CanProceed(w, NextPrim(w))
    /\ threads' = [threads EXCEPT
                       !.mu = LocksAfter(w, NextPrim(w)),
                       !.run[w] = IF threads.run[w].pc = Len(ProgramOf(w))
                                  THEN Idle
                                  ELSE [@ EXCEPT !.pc = @ + 1]]
    /\ LockFrame

LockNext ==
    \/ \E w \in Workers, method \in HandlerNames, n \in 0..MaxItems : Dispatch(w, method, n)
    \/ \E w \in Workers : HandlerStep(w)

LockSpec == ServiceInit /\ [][LockNext]_vars

\* C38: no goroutine is inside a call of the vault bridge (Get, Set, Delete)
\* while it holds the store's lock, for reading or writing, or the mutex of
\* the session registry.
NoBridgeCallUnderLock == \A w \in Workers : InBridge(w) => Holds(w) = {}

\* Collection.CreateItem waits for backend.Set while the other goroutine is
\* inside a store method, holding the store's lock
NoBridgeCallUnderLockWitness ==
    \E w, u \in Workers :
        /\ InBridge(w)
        /\ threads.run[w].method = "Collection.CreateItem"
        /\ Running(u)
        /\ "store" \in Holds(u)

\* goroutine w is about to read or write svc.collections
AtMap(w) == Running(w) /\ NextPrim(w).op = "map"

\* C34: svc.collections is never accessed by two goroutines at once with one
\* of them writing.  Handlers invoked on one and the same object are left
\* out, as if the dispatcher ran them one after the other.
ObjectRegistryExclusion ==
    \A w, u \in Workers :
        (/\ w # u
         /\ AtMap(w) /\ AtMap(u)
         /\ ObjectOf(threads.run[w].method) # ObjectOf(threads.run[u].method))
            => NextPrim(w).arg = "read" /\ NextPrim(u).arg = "read"


(***************************************************************************)
(* InterleaveSpec: the handlers of one item run by two goroutines, one     *)
(* store call or bridge call at a time.  A store method holds the store's  *)
(* lock from entry to return and a bridge call is one exchange with the    *)
(* helper, so each is one step; between two of them the other goroutine    *)
(* may run.  threads.run[w].local holds the handler's local variables.     *)
(* threads.done is history: the items whose Item.Delete returned           *)
(* successfully, and per item and field the value of the last write that   *)
(* returned after its UpdateItem succeeded.                                *)
(***************************************************************************)
Frame(method, pc, local) == [pc |-> pc, method |-> method, local |-> local]
At(w, method, pc) == threads.run[w].method = method /\ threads.run[w].pc = pc
Local(w) == threads.run[w].local
\* the history of writes without the fields of item i
DropItem(written, i) == [k \in {x \in DOMAIN written : x[1] # i} |-> written[k]]
NewAttrs == [k \in {"tag"} |-> "x"]

\* Item.Delete up to and including backend.Delete
DeleteBegin(w, i) ==
    /\ alive
    /\ i \in exports.item
    /\ ~Running(w)
    /\ Activity
    /\ vault' = BridgeDelete(vault, i, "ok").vault
    /\ threads' = [threads EXCEPT !.run[w] = Frame("Item.Delete", 2, [item |-> i])]
    /\ NoWrite
    /\ UNCHANGED <<faults, lastOp, sessions, collections, exports, nextUUID,
                   emitted, wrote, hist>>

\* Item.Delete from store.DeleteItem to the return
DeleteStore(w) ==
    /\ At(w, "Item.Delete", 2)
    /\ LET i == Local(w).item
           r == StoreDeleteItem(data, i[1], i[2], now)
       IN IF r.err
             THEN /\ lastOp' = Op("Item.Delete", "NoSuchObject", [item |-> i], {})
                  /\ NoWrite
                  /\ Emit({}, "none")
                  /\ threads' = [threads EXCEPT !.run[w] = Idle]
                  /\ UNCHANGED exports
          ELSE /\ Write(r.data, "ok")
               /\ Emit({"ItemDeleted"}, "ok")
               /\ exports' = updateCollectionItemsProp(
                                 [exports EXCEPT !.item = @ \ {i}],
                                 collections, r.data, i[1])
               /\ lastOp' = Op("Item.Delete", "ok", [item |-> i], {})
               /\ threads' = [threads EXCEPT
                                 !.run[w] = Idle,
                                 !.done.deleted = @ \cup {i},
                                 !.done.written = DropItem(@, i)]
    /\ UNCHANGED <<supVars, faults, sessions, vault, collections, nextUUID, hist>>

\* Item.SetSecret up to and including decryptSecret
SetSecretBegin(w, i, s, p, ct) ==
    /\ alive
    /\ i \in exports.item
    /\ ~Running(w)
    /\ Activity
    /\ NoWrite
    /\ LET sec == ClientSecret(s, p, "iv1", ct)
           d == decryptSecret(aesKey(s), sec.Parameters, sec.Value)
           arg == [item |-> i, session |-> s, payload |-> p, ContentType |-> ct]
       IN IF ~Registered(s)
             THEN /\ lastOp' = Op("SetSecret", "NoSession", arg, {})
                  /\ Emit({}, "none")
                  /\ UNCHANGED threads
          ELSE IF d.err
             THEN /\ lastOp' = Op("SetSecret", "Failed", arg, {})
                  /\ Emit({}, "none")
                  /\ UNCHANGED threads
          ELSE /\ threads' = [threads EXCEPT !.run[w] =
                                 Frame("Item.SetSecret", 2,
                                       [item |-> i, arg |-> arg, bytes |-> d.bytes,
                                        ct |-> sec.ContentType])]
               /\ UNCHANGED <<lastOp, emitted, wrote>>
    /\ UNCHANGED <<faults, sessions, vault, collections, exports, nextUUID, hist>>

\* Item.SetSecret: backend.Set
SetSecretBackend(w) ==
    /\ At(w, "Item.SetSecret", 2)
    /\ vault' = MapPut(vault, Local(w).item, Local(w).bytes)
    /\ threads' = [threads EXCEPT !.run[w].pc = 3]
    /\ NoWrite
    /\ UNCHANGED <<supVars, faults, lastOp, sessions, collections, exports, nextUUID,
                   emitted, wrote, hist>>

\* Item.SetSecret: meta, ok := store.GetItem(...)
SetSecretGetItem(w) ==
    /\ At(w, "Item.SetSecret", 3)
    /\ LET i == Local(w).item
       IN IF GetItemOk(data, i[1], i[2])
             THEN /\ threads' = [threads EXCEPT !.run[w] =
                                    Frame("Item.SetSecret", 4,
                                          [item |-> i, arg |-> Local(w).arg,
                                           ct |-> Local(w).ct,
                                           meta |-> GetItem(data, i[1], i[2])])]
                  /\ UNCHANGED <<lastOp, emitted, wrote>>
          ELSE /\ threads' = [threads EXCEPT !.run[w] = Idle]
               /\ lastOp' = Op("SetSecret", "ok", Local(w).arg, {})
               /\ Emit({"ItemChanged"}, "none")
    /\ NoWrite
    /\ UNCHANGED <<supVars, faults, sessions, vault, collections, exports, nextUUID, hist>>

\* Item.SetSecret: store.UpdateItem with the content type set in the copy,
\* its error dropped, then notifyItemChanged and the return
SetSecretUpdate(w) ==
    /\ At(w, "Item.SetSecret", 4)
    /\ LET i == Local(w).item
           r == StoreUpdateItem(data, i[1], i[2],
                                [Local(w).meta EXCEPT !.ContentType = Local(w).ct], now)
       IN IF r.err
             THEN /\ NoWrite
                  /\ Emit({"ItemChanged"}, "none")
                  /\ threads' = [threads EXCEPT !.run[w] = Idle]
          ELSE /\ Write(r.data, "ok")
               /\ Emit({"ItemChanged"}, "ok")
               /\ threads' = [threads EXCEPT
                                 !.run[w] = Idle,
                                 !.done.written =
                                     MapPut(@, <<i, "ContentType">>, Local(w).ct)]
    /\ lastOp' = Op("SetSecret", "ok", Local(w).arg, {})
    /\ UNCHANGED <<supVars, faults, sessions, vault, collections, exports, nextUUID, hist>>

\* the Callback of the Label or Attributes property of item i:
\* m, exists := svc.store.GetItem(...)
PropertyGetItem(w, i, property, value) ==
    /\ alive
    /\ i \in exports.item
    /\ ~Running(w)
    /\ IF GetItemOk(data, i[1], i[2])
          THEN /\ threads' = [threads EXCEPT !.run[w] =
                                 Frame("Item.SetProperty", 2,
                                       [item |-> i, property |-> property,
                                        value |-> value,
                                        m |-> GetItem(data, i[1], i[2])])]
               /\ UNCHANGED <<lastOp, emitted, wrote>>
       ELSE /\ lastOp' = Op("Item.Set" \o property, "ok", [item |-> i], {})
            /\ Emit({"PropertiesChanged"}, "none")
            /\ UNCHANGED threads
    /\ NoWrite
    /\ UNCHANGED <<supVars, faults, sessions, vault, collections, exports, nextUUID, hist>>

\* the Callback: the field set in the copy m, then store.UpdateItem with its
\* error dropped
PropertyUpdate(w) ==
    /\ At(w, "Item.SetProperty", 2)
    /\ LET i == Local(w).item
           n == IF Local(w).property = "Label"
                   THEN [Local(w).m EXCEPT !.Label = Local(w).value]
                ELSE [Local(w).m EXCEPT !.Attributes = Local(w).value]
           r == StoreUpdateItem(data, i[1], i[2], n, now)
       IN /\ IF r.err
                THEN /\ NoWrite
                     /\ Emit({"PropertiesChanged"}, "none")
                     /\ threads' = [threads EXCEPT !.run[w] = Idle]
             ELSE /\ Write(r.data, "ok")
                  /\ Emit({"PropertiesChanged"}, "ok")
                  /\ threads' = [threads EXCEPT
                                    !.run[w] = Idle,
                                    !.done.written =
                                        MapPut(@, <<i, Local(w).property>>, Local(w).value)]
          /\ lastOp' = Op("Item.Set" \o Local(w).property, "ok", [item |-> i], {})
    /\ UNCHANGED <<supVars, faults, sessions, vault, collections, exports, nextUUID, hist>>

\* Collection.CreateItem with replace = true, up to the choice of targetUUID
CreateItemBegin(w, c, s, attrs, p) ==
    /\ alive
    /\ Callable(c)
    /\ ~Running(w)
    /\ NoWrite
    /\ LET secret == ClientSecret(s, p, "iv1", DefaultContentType)
           meta == itemMetaFromProperties(<<"I">>, attrs)
           refs == IF DOMAIN meta.Attributes # {}
                      THEN SearchItemsInCollection(data, c, meta.Attributes)
                   ELSE {}
           arg == [collection |-> c, session |-> s, attrs |-> attrs, replace |-> TRUE]
       IN IF ~Registered(s)
             THEN /\ lastOp' = Op("CreateItem", "NoSession", arg, {})
                  /\ Emit({}, "none")
                  /\ UNCHANGED <<threads, nextUUID>>
          ELSE \E targetUUID \in IF refs # {} THEN {ref[2] : ref \in refs}
                                 ELSE {nextUUID} :
                  /\ refs = {} => nextUUID <= MaxItems
                  /\ nextUUID' = IF refs = {} THEN nextUUID + 1 ELSE nextUUID
                  /\ threads' = [threads EXCEPT !.run[w] =
                                    Frame("Collection.CreateItem", 2,
                                          [arg |-> arg, target |-> <<c, targetUUID>>,
                                           meta |-> meta, value |-> secret.Value,
                                           exists |-> FALSE])]
                  /\ UNCHANGED <<lastOp, emitted, wrote>>
    /\ UNCHANGED <<supVars, faults, sessions, vault, collections, exports, hist>>

\* Collection.CreateItem: backend.Set
CreateItemBackend(w) ==
    /\ At(w, "Collection.CreateItem", 2)
    /\ vault' = MapPut(vault, Local(w).target, Local(w).value)
    /\ threads' = [threads EXCEPT !.run[w].pc = 3]
    /\ NoWrite
    /\ UNCHANGED <<supVars, faults, lastOp, sessions, collections, exports, nextUUID,
                   emitted, wrote, hist>>

\* Collection.CreateItem: _, exists := store.GetItem(...)
CreateItemGetItem(w) ==
    /\ At(w, "Collection.CreateItem", 3)
    /\ threads' = [threads EXCEPT
                      !.run[w].pc = 4,
                      !.run[w].local.exists =
                          GetItemOk(data, Local(w).target[1], Local(w).target[2])]
    /\ NoWrite
    /\ UNCHANGED <<supVars, faults, lastOp, sessions, vault, collections, exports,
                   nextUUID, emitted, wrote, hist>>

\* Collection.CreateItem: store.UpdateItem or store.CreateItem, exportItem,
\* updateCollectionItemsProp and the return
CreateItemStore(w) ==
    /\ At(w, "Collection.CreateItem", 4)
    /\ LET t == Local(w).target
           r == IF Local(w).exists
                   THEN StoreUpdateItem(data, t[1], t[2], Local(w).meta, now)
                ELSE StoreCreateItem(data, t[1], t[2], Local(w).meta, now)
       IN IF r.err
             THEN /\ lastOp' = Op("CreateItem", "Failed", Local(w).arg, {})
                  /\ NoWrite
                  /\ Emit({}, "none")
                  /\ threads' = [threads EXCEPT !.run[w] = Idle]
                  /\ UNCHANGED exports
          ELSE /\ Write(r.data, "ok")
               /\ Emit({"ItemCreated"}, "ok")
               /\ exports' = updateCollectionItemsProp(
                                 [exports EXCEPT !.item = @ \cup {t}],
                                 collections, r.data, t[1])
               /\ lastOp' = Op("CreateItem", "ok", Local(w).arg, {t})
               /\ threads' = [threads EXCEPT
                                 !.run[w] = Idle,
                                 !.done.written = DropItem(@, t)]
    /\ UNCHANGED <<supVars, faults, sessions, vault, collections, nextUUID, hist>>

InterleaveNext ==
    \/ ServiceOpenSession("plain", EmptyString)
    \/ CollectionCreateItem(login, "s1", TagV, "p", FALSE, "iv1", "ok")
    \/ \E w \in Workers, i \in exports.item : DeleteBegin(w, i)
    \/ \E w \in Workers : DeleteStore(w)
    \/ \E w \in Workers, i \in exports.item :
          SetSecretBegin(w, i, "s1", "q", OctetStream)
    \/ \E w \in Workers : SetSecretBackend(w)
    \/ \E w \in Workers : SetSecretGetItem(w)
    \/ \E w \in Workers : SetSecretUpdate(w)
    \/ \E w \in Workers, i \in exports.item : PropertyGetItem(w, i, "Label", <<"W">>)
    \/ \E w \in Workers, i \in exports.item : PropertyGetItem(w, i, "Attributes", NewAttrs)
    \/ \E w \in Workers : PropertyUpdate(w)
    \/ \E w \in Workers : CreateItemBegin(w, login, "s1", TagV, "q")
    \/ \E w \in Workers : CreateItemBackend(w)
    \/ \E w \in Workers : CreateItemGetItem(w)
    \/ \E w \in Workers : CreateItemStore(w)

InterleaveSpec == ServiceInit /\ [][InterleaveNext]_vars

\* C31: an item whose Item.Delete has returned successfully has no entry in
\* the vault and no metadata in the store, whatever calls of SetSecret or
\* of CreateItem with replace ran beside the Delete.
DeletedStaysDeleted ==
    \A i \in threads.done.deleted :
        /\ i \notin DOMAIN vault
        /\ ~GetItemOk(data, i[1], i[2])

\* the value of a field of an item's metadata
FieldOf(meta, field) ==
    CASE field = "Label" -> meta.Label
      [] field = "Attributes" -> meta.Attributes
      [] OTHER -> meta.ContentType

\* C32: no update of an item's label, attributes or content type is lost:
\* a field whose write has returned holds the value written, until the item
\* is deleted or replaced by CreateItem.
NoLostUpdate ==
    \A k \in DOMAIN threads.done.written :
        GetItemOk(data, k[1][1], k[1][2]) =>
            FieldOf(GetItem(data, k[1][1], k[1][2]), k[2]) = threads.done.written[k]

=============================================================================
